---- MODULE Spec2Model ----
(***************************************************************************)
(* Model of asset_update.py: the reconciliation of a spreadsheet (df) with *)
(* the Lansweeper asset records, one row and one field at a time.          *)
(*                                                                         *)
(* A cell or JSON value is a record [t, s]: t is the Python type of the    *)
(* value ("nan" for NaN/NaT, "none" for None, "str" for a string, "ts" for *)
(* a pandas Timestamp, "float" for a number) and s is the text str() gives *)
(* for it, as a sequence of tokens.  A token is a run of digits (k = "d",  *)
(* v its value, w its length), a run of blanks (k = " ", w its length) or  *)
(* a literal piece of text (k the text).                                   *)
(***************************************************************************)
EXTENDS Integers, Sequences, FiniteSets, TLC

\* ------------------------------------------------------------------ values

D(v, w) == [k |-> "d", v |-> v, w |-> w]
L(c) == [k |-> c, v |-> 0, w |-> 0]
W(n) == [k |-> " ", v |-> 0, w |-> n]

\* The lower-case letter of each upper-case letter.
lower_case ==
  "A" :> "a" @@ "B" :> "b" @@ "C" :> "c" @@ "D" :> "d" @@ "E" :> "e" @@ "F" :> "f"
  @@ "G" :> "g" @@ "H" :> "h" @@ "I" :> "i" @@ "J" :> "j" @@ "K" :> "k" @@ "L" :> "l"
  @@ "M" :> "m" @@ "N" :> "n" @@ "O" :> "o" @@ "P" :> "p" @@ "Q" :> "q" @@ "R" :> "r"
  @@ "S" :> "s" @@ "T" :> "t" @@ "U" :> "u" @@ "V" :> "v" @@ "W" :> "w" @@ "X" :> "x"
  @@ "Y" :> "y" @@ "Z" :> "z"

\* str.lower() of one character.
lower(c) == IF c \in DOMAIN lower_case THEN lower_case[c] ELSE c

None == [t |-> "none", s |-> <<>>]
NaN == [t |-> "nan", s |-> <<>>]
Str(s) == [t |-> "str", s |-> s]
Timestamp(s) == [t |-> "ts", s |-> s]
Float(s) == [t |-> "float", s |-> s]

\* pd.isna(value)
isna(value) == value.t \in {"nan", "none"}

\* str(value)
str(value) ==
  CASE value.t = "none" -> Str(<<L("None")>>)
    [] value.t = "nan" -> Str(<<L("nan")>>)
    [] OTHER -> Str(value.s)

RECURSIVE lstrip(_)
lstrip(s) == IF s # <<>> /\ Head(s).k = " " THEN lstrip(Tail(s)) ELSE s

RECURSIVE rstrip(_)
rstrip(s) ==
  IF s # <<>> /\ s[Len(s)].k = " " THEN rstrip(SubSeq(s, 1, Len(s) - 1)) ELSE s

\* str.strip()
strip(value) == Str(rstrip(lstrip(value.s)))

is_empty(value) ==
  \/ isna(value)
  \/ value = Str(<<>>)
  \/ value.t = "none"
  \/ strip(str(value)) = Str(<<>>)

\* ------------------------------------------------------------- parse_date

\* Mutant: the day-first formats are tried before the month-first ones.
date_formats_day_first ==
  << <<"Y", "-", "m", "-", "d", "T", "H", ":", "M", ":", "S", ".", "f", "Z">>,
     <<"Y", "-", "m", "-", "d", "T", "H", ":", "M", ":", "S", "Z">>,
     <<"Y", "-", "m", "-", "d", " ", "H", ":", "M", ":", "S">>,
     <<"Y", "-", "m", "-", "d", "T", "H", ":", "M", ":", "S">>,
     <<"Y", "-", "m", "-", "d">>,
     <<"d", "/", "m", "/", "Y">>,
     <<"m", "/", "d", "/", "Y">>,
     <<"Y", "/", "m", "/", "d">>,
     <<"d", "-", "m", "-", "Y">>,
     <<"m", "-", "d", "-", "Y">>,
     <<"d", "/", "m", "/", "y">>,
     <<"m", "/", "d", "/", "y">> >>

date_formats ==
  << <<"Y", "-", "m", "-", "d", "T", "H", ":", "M", ":", "S", ".", "f", "Z">>,
     <<"Y", "-", "m", "-", "d", "T", "H", ":", "M", ":", "S", "Z">>,
     <<"Y", "-", "m", "-", "d", " ", "H", ":", "M", ":", "S">>,
     <<"Y", "-", "m", "-", "d", "T", "H", ":", "M", ":", "S">>,
     <<"Y", "-", "m", "-", "d">>,
     <<"m", "/", "d", "/", "Y">>,
     <<"d", "/", "m", "/", "Y">>,
     <<"Y", "/", "m", "/", "d">>,
     <<"m", "-", "d", "-", "Y">>,
     <<"d", "-", "m", "-", "Y">>,
     <<"m", "/", "d", "/", "y">>,
     <<"d", "/", "m", "/", "y">> >>

Directives == {"Y", "m", "d", "H", "M", "S", "f", "y"}

\* One directive of strptime against one run of digits.
directive_matches(dir, tok) ==
  /\ tok.k = "d" /\ tok.w >= 1
  /\ CASE dir = "Y" -> tok.w = 4
       [] dir = "y" -> tok.w = 2
       [] dir = "m" -> tok.w \in 1..2 /\ tok.v \in 1..12
       [] dir = "d" -> tok.w \in 1..2 /\ tok.v \in 1..31
       [] dir = "H" -> tok.w \in 1..2 /\ tok.v \in 0..23
       [] dir = "M" -> tok.w \in 1..2 /\ tok.v \in 0..59
       [] dir = "S" -> tok.w \in 1..2 /\ tok.v \in 0..61
       [] dir = "f" -> tok.w \in 1..6
       [] OTHER -> FALSE

\* One literal of the format against one token: the pattern is compiled with
\* re.IGNORECASE, and a blank of the format stands for \s+.
literal_matches(lit, tok) ==
  IF lit = " "
  THEN tok.k = " " /\ tok.w >= 1
  ELSE tok.w = 0 /\ (tok.k = lit \/ lower(tok.k) = lower(lit))

\* The tokens the parts of fmt are matched against, one for each part: the
\* pattern of %d also takes one blank followed by one digit from 1 to 9, so
\* that blank goes with the digit.  What fmt does not reach is left at the end.
RECURSIVE regex_groups(_, _)
regex_groups(fmt, s) ==
  IF fmt = <<>> \/ s = <<>>
  THEN s
  ELSE IF /\ Head(fmt) = "d"
          /\ Len(s) >= 2
          /\ s[1].k = " " /\ s[1].w = 1
          /\ s[2].k = "d" /\ s[2].w = 1 /\ s[2].v \in 1..9
       THEN <<s[2]>> \o regex_groups(Tail(fmt), SubSeq(s, 3, Len(s)))
       ELSE <<Head(s)>> \o regex_groups(Tail(fmt), Tail(s))

format_matches(fmt, s) ==
  LET g == regex_groups(fmt, s)
  IN /\ Len(s) \in {Len(fmt), Len(fmt) + 1}
     /\ Len(g) = Len(fmt)
     /\ \A i \in 1..Len(fmt) :
          IF fmt[i] \in Directives
          THEN directive_matches(fmt[i], g[i])
          ELSE literal_matches(fmt[i], g[i])

\* The value of directive dir among the tokens g matched by the parts of fmt,
\* or dflt when fmt has no such field.
field_of(fmt, g, dir, dflt) ==
  IF \E i \in 1..Len(fmt) : fmt[i] = dir
  THEN g[CHOOSE i \in 1..Len(fmt) : fmt[i] = dir].v
  ELSE dflt

is_leap(y) == (y % 4 = 0 /\ y % 100 # 0) \/ y % 400 = 0

days_in_month(y, m) ==
  CASE m \in {4, 6, 9, 11} -> 30
    [] m = 2 -> IF is_leap(y) THEN 29 ELSE 28
    [] OTHER -> 31

\* datetime.strptime(s, fmt): the parsed fields, or ok = FALSE for ValueError.
strptime(s, fmt) ==
  IF ~format_matches(fmt, s)
  THEN [ok |-> FALSE, Y |-> 0, m |-> 0, d |-> 0, H |-> 0, M |-> 0, S |-> 0]
  ELSE LET g == regex_groups(fmt, s)
           yy == field_of(fmt, g, "y", 0)
           year == IF \E i \in 1..Len(fmt) : fmt[i] = "y"
                   THEN (IF yy <= 68 THEN 2000 + yy ELSE 1900 + yy)
                   ELSE field_of(fmt, g, "Y", 1900)
           month == field_of(fmt, g, "m", 1)
           day == field_of(fmt, g, "d", 1)
           second == field_of(fmt, g, "S", 0)
       IN [ok |-> year >= 1 /\ day <= days_in_month(year, month) /\ second <= 59,
           Y |-> year, m |-> month, d |-> day,
           H |-> field_of(fmt, g, "H", 0), M |-> field_of(fmt, g, "M", 0),
           S |-> second]

\* The number of digits %Y prints (the C library does not pad the year).
year_width(y) == IF y >= 1000 THEN 4 ELSE IF y >= 100 THEN 3 ELSE IF y >= 10 THEN 2 ELSE 1

\* datetime.strftime with '%Y-%m-%d' ('normal') or '%Y-%m-%dT%H:%M:%SZ'.
strftime(p, output_fmt) ==
  LET date == <<D(p.Y, year_width(p.Y)), L("-"), D(p.m, 2), L("-"), D(p.d, 2)>>
  IN IF output_fmt = "lansweeper"
     THEN Str(date \o <<L("T"), D(p.H, 2), L(":"), D(p.M, 2), L(":"), D(p.S, 2), L("Z")>>)
     ELSE Str(date)

RECURSIVE try_formats(_, _, _)
try_formats(s, output_fmt, i) ==
  IF i > Len(date_formats)
  THEN None
  ELSE LET p == strptime(s, date_formats[i])
       IN IF p.ok THEN strftime(p, output_fmt) ELSE try_formats(s, output_fmt, i + 1)

parse_date(date_str, output_fmt) ==
  IF is_empty(date_str)
  THEN None
  ELSE try_formats(strip(str(date_str)).s, output_fmt, 1)

\* --------------------------------------------------------- compare_values

\* A field name is given to is_date_field and to compare_values as the
\* sequence of its characters (a string is not a sequence here): any name can
\* be written that way.  characters gives the sequence for the names used
\* below.
characters(name) ==
  CASE name = "barCode" ->
         <<"b", "a", "r", "C", "o", "d", "e">>
    [] name = "purchaseDate" ->
         <<"p", "u", "r", "c", "h", "a", "s", "e", "D", "a", "t", "e">>
    [] name = "warrantyDate" ->
         <<"w", "a", "r", "r", "a", "n", "t", "y", "D", "a", "t", "e">>
    [] name = "Barcode Number" ->
         <<"B", "a", "r", "c", "o", "d", "e", " ", "N", "u", "m", "b", "e", "r">>
    [] name = "Invoice Date" ->
         <<"I", "n", "v", "o", "i", "c", "e", " ", "D", "a", "t", "e">>
    [] name = "Extended Warranty" ->
         <<"E", "x", "t", "e", "n", "d", "e", "d", " ", "W", "a", "r", "r", "a", "n", "t", "y">>
    [] name = "Serial Number" ->
         <<"S", "e", "r", "i", "a", "l", " ", "N", "u", "m", "b", "e", "r">>
    [] name = "PURCHASEDATE" ->
         <<"P", "U", "R", "C", "H", "A", "S", "E", "D", "A", "T", "E">>
    [] name = "purchase_date" ->
         <<"p", "u", "r", "c", "h", "a", "s", "e", "_", "d", "a", "t", "e">>
    [] name = "updated" ->
         <<"u", "p", "d", "a", "t", "e", "d">>
    [] name = "warranty_date" ->
         <<"w", "a", "r", "r", "a", "n", "t", "y", "_", "d", "a", "t", "e">>
    [] name = "Date" ->
         <<"D", "a", "t", "e">>
    [] name = "expiryDate" ->
         <<"e", "x", "p", "i", "r", "y", "D", "a", "t", "e">>
    [] name = "mandate" ->
         <<"m", "a", "n", "d", "a", "t", "e">>
    [] name = "Purchase Date " ->
         <<"P", "u", "r", "c", "h", "a", "s", "e", " ", "D", "a", "t", "e", " ">>
    [] name = "da te" ->
         <<"d", "a", " ", "t", "e">>
    [] name = "key" ->
         <<"k", "e", "y">>

\* The names a field is given here: those of main, and others.
FieldNames ==
  { "barCode",
    "purchaseDate",
    "warrantyDate",
    "Barcode Number",
    "Invoice Date",
    "Extended Warranty",
    "Serial Number",
    "PURCHASEDATE",
    "purchase_date",
    "updated",
    "warranty_date",
    "Date",
    "expiryDate",
    "mandate",
    "Purchase Date ",
    "da te",
    "key" }

\* 'date' in field_name.lower(), field_name being any sequence of characters.
is_date_field(field_name) ==
  \E i \in 1..(Len(field_name) - 3) :
    /\ lower(field_name[i]) = "d"
    /\ lower(field_name[i + 1]) = "a"
    /\ lower(field_name[i + 2]) = "t"
    /\ lower(field_name[i + 3]) = "e"

compare_values(spreadsheet_val, lansweeper_val, field_name) ==
  LET ls_blank == lansweeper_val.t = "none" \/ lansweeper_val = Str(<<>>)
  IN IF isna(spreadsheet_val) /\ ls_blank THEN TRUE
     ELSE IF isna(spreadsheet_val) \/ ls_blank THEN FALSE
     ELSE IF is_date_field(field_name)
          THEN parse_date(spreadsheet_val, "normal") = parse_date(lansweeper_val, "normal")
          ELSE strip(str(spreadsheet_val)) = strip(str(lansweeper_val))

\* int(value) succeeds: the barcode type check of main.
\* Runs of digits with single underscores between them.
RECURSIVE digit_groups(_)
digit_groups(s) ==
  /\ s # <<>>
  /\ Head(s).k = "d" /\ Head(s).w >= 1
  /\ \/ Len(s) = 1
     \/ /\ Len(s) >= 3
        /\ s[2].k = "_" /\ s[2].w = 0
        /\ digit_groups(SubSeq(s, 3, Len(s)))

int_ok(value) ==
  \/ /\ value.t = "float"
     /\ \A i \in 1..Len(value.s) : value.s[i].k \notin {"inf", "-inf"}
  \/ /\ value.t = "str"
     /\ LET s == strip(value).s
            signed == s # <<>> /\ Head(s).k \in {"+", "-"} /\ Head(s).w = 0
        IN digit_groups(IF signed THEN Tail(s) ELSE s)

\* ------------------------------------------------------------- the inputs

\* The number of rows of the spreadsheet.
NRows == 2

required_columns == {"Serial Number", "Barcode Number", "Invoice Date", "Extended Warranty"}

\* Mutant: the dates are processed before the barcode.
fields_to_process_dates_first ==
  << [display |-> "Invoice Date", ls |-> "purchaseDate"],
     [display |-> "Extended Warranty", ls |-> "warrantyDate"],
     [display |-> "Barcode Number", ls |-> "barCode"] >>

\* (field_display_name, field_ls_name) of fields_to_process, in its order.
fields_to_process ==
  << [display |-> "Barcode Number", ls |-> "barCode"],
     [display |-> "Invoice Date", ls |-> "purchaseDate"],
     [display |-> "Extended Warranty", ls |-> "warrantyDate"] >>

NFields == Len(fields_to_process)

RATE_LIMIT == 150

MkRow(serial, barcode, invoice, warranty) ==
  [c \in required_columns |->
     CASE c = "Serial Number" -> serial
       [] c = "Barcode Number" -> barcode
       [] c = "Invoice Date" -> invoice
       [] OTHER -> warranty]

MkAsset(key, barCode, purchaseDate, warrantyDate) ==
  [key |-> key, barCode |-> barCode, purchaseDate |-> purchaseDate,
   warrantyDate |-> warrantyDate]

Text(c) == Str(<<L(c)>>)

\* "11/08/2024", "09/11/2024" and "2024-11-08", "2024-11-09" as cells
DateUS(m, d, y) == Str(<<D(m, 2), L("/"), D(d, 2), L("/"), D(y, 4)>>)
DateISO(y, m, d) == Str(<<D(y, 4), L("-"), D(m, 2), L("-"), D(d, 2)>>)
\* "2024-11-08T00:00:00Z", the form the service answers with
DateLS(y, m, d) ==
  Str(<<D(y, 4), L("-"), D(m, 2), L("-"), D(d, 2), L("T"),
        D(0, 2), L(":"), D(0, 2), L(":"), D(0, 2), L("Z")>>)
\* "BC123"
Barcode(n) == Str(<<L("BC"), D(n, 3)>>)

\* The rows a spreadsheet is made of.
SheetRows ==
  { MkRow(Text("SN1"), Barcode(123), DateUS(11, 8, 2024), NaN),
    MkRow(Text("SN2"), NaN, Text("garbage"), DateUS(11, 8, 2024)),
    MkRow(Text("SN3"), Str(<<D(77, 2)>>), NaN, NaN),
    MkRow(NaN, Barcode(123), NaN, NaN) }

\* The records the service holds.
Assets ==
  { MkAsset("K1", Barcode(124), None, DateLS(2024, 11, 8)),
    MkAsset("K2", Str(<<>>), DateLS(2024, 11, 9), None),
    MkAsset("K3", Str(<<D(77, 2)>>), None, DateLS(2024, 11, 9)) }

\* A spreadsheet: NRows rows, no two alike (the serial number is the key).
Spreadsheets ==
  { rows \in [1..NRows -> SheetRows] :
      \A i, j \in 1..NRows : rows[i] = rows[j] => i = j }

GateChoices == {"", "q"}
UserChoices == {"ls_to_sheet", "sheet_to_ls", "skip", "quit"}
\* What the service does with a mutation posted to it: it answers without
\* errors, answers with errors, the request raises a RequestException, or the
\* body of the answer is not an object (JSON null).
UpdateResponses == {"ok", "errors", "exception", "json_null"}

\* ------------------------------------------------------------------ state

VARIABLES
  pc,                  \* where main is: "start", "row", "field", "dispatch", "done"
  error,               \* how main ended: "none", "config", "file_not_found", "exception"
  environ,             \* os.environ: which of the required variables are set
  spreadsheet_file,    \* the file at SPREADSHEET_PATH
  to_excel_calls,      \* the number of df.to_excel calls
  df,                  \* the rows read by pd.read_excel, mutated by df.at
  index,               \* the row of the for loop (1-based)
  field_i,             \* the position in fields_to_process
  asset,               \* the record the lookup returned for the row
  ls_updates,          \* the updates staged for the row: field_ls_name -> value
  quit_processing,     \* the global flag
  request_count,       \* api.request_count
  spreadsheet_changes, \* the four lists of main
  ls_changes,
  missing_info,
  conflict_info,
  discrepancy_file,    \* what the run appended to DISCREPANCIES_FILE
  requests,            \* the calls made to the service, in order
  prompts,             \* the calls of get_user_choice, in order ("raised": no answer)
  outcomes             \* the branch taken for each (row, field), in order

vars ==
  <<pc, error, environ, spreadsheet_file, to_excel_calls, df, index, field_i, asset,
    ls_updates, quit_processing, request_count, spreadsheet_changes, ls_changes,
    missing_info, conflict_info, discrepancy_file, requests, prompts, outcomes>>

\* One line of a list or of the report.
Entry(kind, row, field, old, new) ==
  [kind |-> kind, row |-> row, field |-> field, old |-> old, new |-> new]

\* One call of get_asset_by_serial (op "query") or update_asset (op
\* "mutation"): the row it was made for, the answer given to the prompt of
\* _check_rate_limit ("none" when it was not shown, "EOFError" when input()
\* raised), whether a request was posted, the key and customFields it carried,
\* and what the method returned ("raised" when an exception left it).
Request(op, row, gate, sent, key, fields, result) ==
  [op |-> op, row |-> row, gate |-> gate, sent |-> sent, key |-> key, fields |-> fields,
   result |-> result]

EmptyDict == [f \in {} |-> None]

NoAsset == MkAsset("", None, None, None)

Files ==
  { [exists |-> TRUE, columns |-> required_columns, rows |-> r] : r \in Spreadsheets }
  \cup { [exists |-> TRUE, columns |-> required_columns \ {"Invoice Date"}, rows |-> <<>>],
         [exists |-> FALSE, columns |-> {}, rows |-> <<>>] }

Environs ==
  { [site_id |-> TRUE, pat_token |-> TRUE],
    [site_id |-> FALSE, pat_token |-> TRUE],
    [site_id |-> TRUE, pat_token |-> FALSE] }

Init ==
  /\ pc = "start"
  /\ error = "none"
  /\ environ \in Environs
  /\ spreadsheet_file \in Files
  /\ to_excel_calls = 0
  /\ df = <<>>
  /\ index = 0
  /\ field_i = 0
  /\ asset = NoAsset
  /\ ls_updates = EmptyDict
  /\ quit_processing = FALSE
  /\ request_count = 0
  /\ spreadsheet_changes = <<>>
  /\ ls_changes = <<>>
  /\ missing_info = <<>>
  /\ conflict_info = <<>>
  /\ discrepancy_file = <<>>
  /\ requests = <<>>
  /\ prompts = <<>>
  /\ outcomes = <<>>

\* ---------------------------------------------------------------- helpers

\* Mutant: the answer to the prompt is ignored.
check_rate_limit_ignores_answer(count, choice, flag) == flag

\* LansweeperAPI._check_rate_limit: the flag after the call, when the answer
\* to the prompt (if it is shown) is choice.
check_rate_limit(count, choice, flag) ==
  IF count % RATE_LIMIT = 0 /\ count > 0 /\ choice = "q" THEN TRUE ELSE flag

\* The answer read by input() in _check_rate_limit, "none" when the prompt is
\* not shown.
gate_answer(count, choice) ==
  IF count % RATE_LIMIT = 0 /\ count > 0 THEN choice ELSE "none"

\* The prompt of _check_rate_limit is shown.
prompt_shown == request_count % RATE_LIMIT = 0 /\ request_count > 0

\* What input() can return at this call: the prompt is read only when it is
\* shown (the answer is "" where nothing is asked).
prompt_answers == IF prompt_shown THEN GateChoices ELSE {""}

\* dict assignment d[k] = v
dict_set(d, k, v) == [f \in DOMAIN d \cup {k} |-> IF f = k THEN v ELSE d[f]]

\* df.at[i, column] = value
df_at_set(d, i, column, value) ==
  [d EXCEPT ![i] = [c \in DOMAIN d[i] |-> IF c = column THEN value ELSE d[i][c]]]

\* The normalized value main logs, stages and copies: parse_date(v, 'normal')
\* for a date field, str(v) otherwise.
normalized(value, field_ls_name) ==
  IF is_date_field(characters(field_ls_name)) THEN parse_date(value, "normal") ELSE str(value)

\* asset['assetCustom'].get(name, '')
ls_value(a, field_ls_name) ==
  CASE field_ls_name = "barCode" -> a.barCode
    [] field_ls_name = "purchaseDate" -> a.purchaseDate
    [] OTHER -> a.warrantyDate

\* Mutant: the staged values are sent as they are.
custom_fields_as_staged(fields_to_update) == fields_to_update

\* The customFields object update_asset builds from fields_to_update: the
\* values of purchaseDate and warrantyDate are converted (and left out when the
\* conversion gives nothing), every other field is posted as it is.
custom_fields(fields_to_update) ==
  LET converted(f) == f \in {"purchaseDate", "warrantyDate"}
      iso(f) == parse_date(fields_to_update[f], "lansweeper")
      kept == { f \in DOMAIN fields_to_update :
                  converted(f) => (iso(f) # None /\ iso(f) # Str(<<>>)) }
  IN [f \in kept |-> IF converted(f) THEN iso(f) ELSE fields_to_update[f]]

\* The entries of the barcode type checks of main (LS first, then sheet).
barcode_checks(i, row, a) ==
  (IF ~is_empty(a.barCode) /\ ~int_ok(a.barCode)
   THEN <<Entry("invalid_ls_barcode", i, "Barcode Number", None, a.barCode)>>
   ELSE <<>>)
  \o
  (IF ~is_empty(row["Barcode Number"]) /\ ~int_ok(row["Barcode Number"])
   THEN <<Entry("invalid_sheet_barcode", i, "Barcode Number", row["Barcode Number"], None)>>
   ELSE <<>>)

\* The report sections main writes after the loop.
section(name, list) == IF list = <<>> THEN <<>> ELSE <<Entry(name, 0, "", None, None)>> \o list

\* ------------------------------------------------- main: before the loop

\* Mutant: the token is not required.
config_ok_site_only == environ.site_id

config_ok == environ.site_id /\ environ.pat_token

\* SITE_ID or PAT_TOKEN is not set: main returns.
StartMissingConfig ==
  /\ pc = "start"
  /\ ~config_ok
  /\ pc' = "done"
  /\ error' = "config"
  /\ UNCHANGED <<environ, spreadsheet_file, to_excel_calls, df, index, field_i, asset,
                 ls_updates, quit_processing, request_count, spreadsheet_changes,
                 ls_changes, missing_info, conflict_info, discrepancy_file, requests,
                 prompts, outcomes>>

\* pd.read_excel raises FileNotFoundError.
StartFileNotFound ==
  /\ pc = "start"
  /\ config_ok
  /\ ~spreadsheet_file.exists
  /\ pc' = "done"
  /\ error' = "file_not_found"
  /\ UNCHANGED <<environ, spreadsheet_file, to_excel_calls, df, index, field_i, asset,
                 ls_updates, quit_processing, request_count, spreadsheet_changes,
                 ls_changes, missing_info, conflict_info, discrepancy_file, requests,
                 prompts, outcomes>>

\* A required column is missing: ValueError, caught by the last handler.
StartMissingColumns ==
  /\ pc = "start"
  /\ config_ok
  /\ spreadsheet_file.exists
  /\ ~(required_columns \subseteq spreadsheet_file.columns)
  /\ pc' = "done"
  /\ error' = "exception"
  /\ UNCHANGED <<environ, spreadsheet_file, to_excel_calls, df, index, field_i, asset,
                 ls_updates, quit_processing, request_count, spreadsheet_changes,
                 ls_changes, missing_info, conflict_info, discrepancy_file, requests,
                 prompts, outcomes>>

\* What open(DISCREPANCIES_FILE, 'a') does before the loop: it opens the
\* report, or raises FileNotFoundError (the directory of the report does not
\* exist) or another OSError (the report cannot be written).
ReportOpenOutcomes == {"opened", "FileNotFoundError", "OSError"}

\* The spreadsheet is read, the lists are created and the report is opened.
\* An exception of open ends main at one of its handlers (FileNotFoundError
\* at the first, any other at the last), before the header is written and
\* before any row is processed.
ReadSpreadsheet ==
  /\ pc = "start"
  /\ config_ok
  /\ spreadsheet_file.exists
  /\ required_columns \subseteq spreadsheet_file.columns
  /\ df' = spreadsheet_file.rows
  /\ spreadsheet_changes' = <<>>
  /\ ls_changes' = <<>>
  /\ missing_info' = <<>>
  /\ conflict_info' = <<>>
  /\ quit_processing' = FALSE
  /\ \E open \in ReportOpenOutcomes :
       IF open = "opened"
       THEN /\ discrepancy_file' =
                 Append(discrepancy_file, Entry("header", 0, "", None, None))
            /\ index' = 1
            /\ pc' = "row"
            /\ error' = error
       ELSE /\ pc' = "done"
            /\ error' = IF open = "FileNotFoundError" THEN "file_not_found" ELSE "exception"
            /\ UNCHANGED <<discrepancy_file, index>>
  /\ UNCHANGED <<environ, spreadsheet_file, to_excel_calls, field_i, asset,
                 ls_updates, request_count, requests, prompts, outcomes>>

\* ------------------------------------------------------ main: the row loop

serial_number == df[index]["Serial Number"]

\* A row without a serial number is skipped.
SkipRow ==
  /\ pc = "row"
  /\ index <= Len(df) /\ ~quit_processing
  /\ is_empty(serial_number)
  /\ index' = index + 1
  /\ UNCHANGED <<pc, error, environ, spreadsheet_file, to_excel_calls, df, field_i,
                 asset, ls_updates, quit_processing, request_count, spreadsheet_changes,
                 ls_changes, missing_info, conflict_info, discrepancy_file, requests,
                 prompts, outcomes>>

lookup_enabled ==
  /\ pc = "row"
  /\ index <= Len(df) /\ ~quit_processing
  /\ ~is_empty(serial_number)

\* What every call of get_asset_by_serial does before it posts the query.
lookup_call(choice, result) ==
  /\ quit_processing' = check_rate_limit(request_count, choice, quit_processing)
  /\ request_count' = request_count + 1
  /\ requests' =
       Append(requests,
              Request("query", index, gate_answer(request_count, choice), TRUE, "",
                      EmptyDict, result))

\* get_asset_by_serial returns None (request failed, GraphQL errors, unexpected
\* structure); asset['total'] raises TypeError, caught by the last handler.
LookupFailed ==
  /\ lookup_enabled
  /\ \E choice \in prompt_answers : lookup_call(choice, "failed")
  /\ pc' = "done"
  /\ error' = "exception"
  /\ UNCHANGED <<environ, spreadsheet_file, to_excel_calls, df, index, field_i, asset,
                 ls_updates, spreadsheet_changes, ls_changes, missing_info,
                 conflict_info, discrepancy_file, prompts, outcomes>>

\* input() of _check_rate_limit raises EOFError (standard input is closed or
\* at its end) in get_asset_by_serial: the exception leaves the method before
\* the counter is incremented and before the query is posted, and is caught
\* by the last handler of main.
LookupInputRaises ==
  /\ lookup_enabled
  /\ prompt_shown
  /\ requests' =
       Append(requests, Request("query", index, "EOFError", FALSE, "", EmptyDict, "raised"))
  /\ pc' = "done"
  /\ error' = "exception"
  /\ UNCHANGED <<environ, spreadsheet_file, to_excel_calls, df, index, field_i, asset,
                 ls_updates, quit_processing, request_count, spreadsheet_changes,
                 ls_changes, missing_info, conflict_info, discrepancy_file, prompts,
                 outcomes>>

\* Mutant: an empty result is indexed, and the exception ends the run.
LookupNotFound_raises ==
  /\ lookup_enabled
  /\ \E choice \in prompt_answers : lookup_call(choice, "zero")
  /\ pc' = "done"
  /\ error' = "exception"
  /\ UNCHANGED <<environ, spreadsheet_file, to_excel_calls, df, index, field_i, asset,
                 ls_updates, spreadsheet_changes, ls_changes, missing_info,
                 conflict_info, discrepancy_file, prompts, outcomes>>

\* total == 0
LookupNotFound ==
  /\ lookup_enabled
  /\ \E choice \in prompt_answers : lookup_call(choice, "zero")
  /\ discrepancy_file' = Append(discrepancy_file, Entry("not_found", index, "", None, None))
  /\ index' = index + 1
  /\ UNCHANGED <<pc, error, environ, spreadsheet_file, to_excel_calls, df, field_i,
                 asset, ls_updates, spreadsheet_changes, ls_changes, missing_info,
                 conflict_info, prompts, outcomes>>

\* Mutant: the first of several records is taken.
LookupAmbiguous_takes_first ==
  /\ lookup_enabled
  /\ \E choice \in prompt_answers, a \in Assets :
       /\ lookup_call(choice, "many")
       /\ asset' = a
       /\ conflict_info' = conflict_info \o barcode_checks(index, df[index], a)
  /\ ls_updates' = EmptyDict
  /\ field_i' = 1
  /\ pc' = IF quit_processing' THEN "dispatch" ELSE "field"
  /\ UNCHANGED <<error, environ, spreadsheet_file, to_excel_calls, df, index,
                 spreadsheet_changes, ls_changes, missing_info, discrepancy_file,
                 prompts, outcomes>>

\* total > 1
LookupAmbiguous ==
  /\ lookup_enabled
  /\ \E choice \in prompt_answers : lookup_call(choice, "many")
  /\ discrepancy_file' = Append(discrepancy_file, Entry("ambiguous", index, "", None, None))
  /\ index' = index + 1
  /\ UNCHANGED <<pc, error, environ, spreadsheet_file, to_excel_calls, df, field_i,
                 asset, ls_updates, spreadsheet_changes, ls_changes, missing_info,
                 conflict_info, prompts, outcomes>>

\* Mutant: the batch of the last row is kept.
new_batch_keeps(previous) == previous

\* ls_updates = {}: the batch of a row starts empty, whatever the last row staged.
new_batch(previous) == EmptyDict

\* Mutant: the field loop does not look at the flag set during the lookup.
LookupOne_enters_loop ==
  /\ lookup_enabled
  /\ \E choice \in prompt_answers, a \in Assets :
       /\ lookup_call(choice, "one")
       /\ asset' = a
       /\ conflict_info' = conflict_info \o barcode_checks(index, df[index], a)
  /\ ls_updates' = new_batch(ls_updates)
  /\ field_i' = 1
  /\ pc' = "field"
  /\ UNCHANGED <<error, environ, spreadsheet_file, to_excel_calls, df, index,
                 spreadsheet_changes, ls_changes, missing_info, discrepancy_file,
                 prompts, outcomes>>

\* Mutant: a barcode that is not a number ends the row.
LookupOne_rejects_barcode ==
  /\ lookup_enabled
  /\ \E choice \in prompt_answers, a \in Assets :
       /\ lookup_call(choice, "one")
       /\ asset' = a
       /\ conflict_info' = conflict_info \o barcode_checks(index, df[index], a)
       /\ pc' = IF quit_processing' \/ barcode_checks(index, df[index], a) # <<>>
                THEN "dispatch" ELSE "field"
  /\ ls_updates' = new_batch(ls_updates)
  /\ field_i' = 1
  /\ UNCHANGED <<error, environ, spreadsheet_file, to_excel_calls, df, index,
                 spreadsheet_changes, ls_changes, missing_info, discrepancy_file,
                 prompts, outcomes>>

\* total == 1: the values are extracted, the barcodes are type-checked, the
\* batch is created and the field loop is entered (it breaks at once when the
\* flag was set during the lookup).
LookupOne ==
  /\ lookup_enabled
  /\ \E choice \in prompt_answers, a \in Assets :
       /\ lookup_call(choice, "one")
       /\ asset' = a
       /\ conflict_info' = conflict_info \o barcode_checks(index, df[index], a)
  /\ ls_updates' = new_batch(ls_updates)
  /\ field_i' = 1
  /\ pc' = IF quit_processing' THEN "dispatch" ELSE "field"
  /\ UNCHANGED <<error, environ, spreadsheet_file, to_excel_calls, df, index,
                 spreadsheet_changes, ls_changes, missing_info, discrepancy_file,
                 prompts, outcomes>>

\* ---------------------------------------------------- main: the field loop

field == fields_to_process[field_i]
\* row[field_display_name]: the row is read before the loop, and each field
\* reads a column no earlier field of the row has written.
sheet_val == df[index][field.display]
ls_val == ls_value(asset, field.ls)
sheet_empty == is_empty(sheet_val)
ls_empty == is_empty(ls_val)

Outcome(kind, value) == [row |-> index, field |-> field.ls, kind |-> kind, value |-> value]

\* Mutant: the Lansweeper value is copied as it came.
fill_sheet_value_raw(value, field_ls_name) == value

\* The value copied into the spreadsheet when only Lansweeper has one.
fill_sheet_value(value, field_ls_name) == normalized(value, field_ls_name)

\* Mutant: a date is staged as the UTC timestamp.
fill_ls_value_timestamp(value, field_ls_name) ==
  IF is_date_field(characters(field_ls_name)) THEN parse_date(value, "lansweeper") ELSE str(value)

\* The value staged for Lansweeper when only the spreadsheet has one.
fill_ls_value(value, field_ls_name) == normalized(value, field_ls_name)

\* Mutant: the loop steps over a field.
next_field_skips_one ==
  /\ field_i' = IF field_i + 1 < NFields THEN field_i + 2 ELSE field_i
  /\ pc' = IF field_i + 1 < NFields /\ ~quit_processing THEN "field" ELSE "dispatch"

\* The next iteration of the field loop (which breaks when the flag is set),
\* or its end.  No action that uses it changes the flag.
next_field ==
  /\ field_i' = IF field_i < NFields THEN field_i + 1 ELSE field_i
  /\ pc' = IF field_i < NFields /\ ~quit_processing THEN "field" ELSE "dispatch"

FieldBothEmpty ==
  /\ pc = "field"
  /\ sheet_empty /\ ls_empty
  /\ missing_info' = Append(missing_info, Entry("both_empty", index, field.display, None, None))
  /\ outcomes' = Append(outcomes, Outcome("BothEmpty", None))
  /\ next_field
  /\ UNCHANGED <<error, environ, spreadsheet_file, to_excel_calls, df, index, asset,
                 ls_updates, quit_processing, request_count, spreadsheet_changes,
                 ls_changes, conflict_info, discrepancy_file, requests, prompts>>

\* Spreadsheet empty, LS has a value: update the spreadsheet.
FieldFillSheet ==
  /\ pc = "field"
  /\ sheet_empty /\ ~ls_empty
  /\ LET normalized_ls_val == fill_sheet_value(ls_val, field.ls)
     IN /\ df' = df_at_set(df, index, field.display, normalized_ls_val)
        /\ spreadsheet_changes' =
             Append(spreadsheet_changes,
                    Entry("updated_from_empty", index, field.display, None, normalized_ls_val))
        /\ outcomes' = Append(outcomes, Outcome("FillLocal", normalized_ls_val))
  /\ next_field
  /\ UNCHANGED <<error, environ, spreadsheet_file, to_excel_calls, index, asset,
                 ls_updates, quit_processing, request_count, ls_changes, missing_info,
                 conflict_info, discrepancy_file, requests, prompts>>

\* LS empty, spreadsheet has a value: prepare to update LS.
FieldFillLS ==
  /\ pc = "field"
  /\ ~sheet_empty /\ ls_empty
  /\ LET normalized_sheet_val == fill_ls_value(sheet_val, field.ls)
     IN /\ ls_updates' = dict_set(ls_updates, field.ls, normalized_sheet_val)
        /\ ls_changes' =
             Append(ls_changes,
                    Entry("will_update_from_empty", index, field.display, None,
                          normalized_sheet_val))
        /\ outcomes' = Append(outcomes, Outcome("FillRemote", normalized_sheet_val))
  /\ next_field
  /\ UNCHANGED <<error, environ, spreadsheet_file, to_excel_calls, df, index, asset,
                 quit_processing, request_count, spreadsheet_changes, missing_info,
                 conflict_info, discrepancy_file, requests, prompts>>

\* Mutant: on a match the spreadsheet takes the form of the Lansweeper value.
FieldMatch_copies ==
  /\ pc = "field"
  /\ ~sheet_empty /\ ~ls_empty
  /\ compare_values(sheet_val, ls_val, characters(field.ls))
  /\ df' = df_at_set(df, index, field.display, normalized(ls_val, field.ls))
  /\ outcomes' = Append(outcomes, Outcome("Match", None))
  /\ next_field
  /\ UNCHANGED <<error, environ, spreadsheet_file, to_excel_calls, index, asset,
                 ls_updates, quit_processing, request_count, spreadsheet_changes,
                 ls_changes, missing_info, conflict_info, discrepancy_file, requests,
                 prompts>>

\* Both have values and they match: nothing is done.
FieldMatch ==
  /\ pc = "field"
  /\ ~sheet_empty /\ ~ls_empty
  /\ compare_values(sheet_val, ls_val, characters(field.ls))
  /\ outcomes' = Append(outcomes, Outcome("Match", None))
  /\ next_field
  /\ UNCHANGED <<error, environ, spreadsheet_file, to_excel_calls, df, index, asset,
                 ls_updates, quit_processing, request_count, spreadsheet_changes,
                 ls_changes, missing_info, conflict_info, discrepancy_file, requests,
                 prompts>>

conflict_detected ==
  /\ pc = "field"
  /\ ~sheet_empty /\ ~ls_empty
  /\ ~compare_values(sheet_val, ls_val, characters(field.ls))

\* Mutant: the Lansweeper value is taken for the spreadsheet value.
normalized_sheet_val_from_ls == normalized(ls_val, field.ls)

normalized_sheet_val == normalized(sheet_val, field.ls)

\* Mutant: the Lansweeper value is used as it came.
normalized_ls_val_raw == ls_val

normalized_ls_val == normalized(ls_val, field.ls)

\* get_user_choice is called with the two normalized values and returns choice.
get_user_choice(choice) ==
  prompts' = Append(prompts, [row |-> index, field |-> field.display,
                              spreadsheet_val |-> normalized_sheet_val,
                              lansweeper_val |-> normalized_ls_val,
                              choice |-> choice])

\* Mutant: the field loop breaks but the flag is not set.
ConflictQuit_flag_not_set ==
  /\ conflict_detected
  /\ get_user_choice("quit")
  /\ pc' = "dispatch"
  /\ UNCHANGED <<error, environ, spreadsheet_file, to_excel_calls, df, index, field_i,
                 asset, ls_updates, quit_processing, request_count, spreadsheet_changes,
                 ls_changes, missing_info, conflict_info, discrepancy_file, requests,
                 outcomes>>

\* Mutant: on quit the changes made to the row are undone.
ConflictQuit_rolls_back ==
  /\ conflict_detected
  /\ get_user_choice("quit")
  /\ quit_processing' = TRUE
  /\ pc' = "dispatch"
  /\ df' = [df EXCEPT ![index] = spreadsheet_file.rows[index]]
  /\ spreadsheet_changes' = SelectSeq(spreadsheet_changes, LAMBDA e : e.row # index)
  /\ UNCHANGED <<error, environ, spreadsheet_file, to_excel_calls, index, field_i,
                 asset, ls_updates, request_count, ls_changes, missing_info,
                 conflict_info, discrepancy_file, requests, outcomes>>

\* choice 4: the flag is set and the field loop breaks.
ConflictQuit ==
  /\ conflict_detected
  /\ get_user_choice("quit")
  /\ quit_processing' = TRUE
  /\ pc' = "dispatch"
  /\ UNCHANGED <<error, environ, spreadsheet_file, to_excel_calls, df, index, field_i,
                 asset, ls_updates, request_count, spreadsheet_changes, ls_changes,
                 missing_info, conflict_info, discrepancy_file, requests, outcomes>>

\* input() of get_user_choice raises EOFError (standard input is closed or
\* at its end): the exception is caught by the last handler of main, in the
\* middle of the row.
ConflictInputRaises ==
  /\ conflict_detected
  /\ get_user_choice("raised")
  /\ pc' = "done"
  /\ error' = "exception"
  /\ UNCHANGED <<environ, spreadsheet_file, to_excel_calls, df, index, field_i, asset,
                 ls_updates, quit_processing, request_count, spreadsheet_changes,
                 ls_changes, missing_info, conflict_info, discrepancy_file, requests,
                 outcomes>>

\* choice 1: update the spreadsheet with the Lansweeper value.
ConflictLsToSheet ==
  /\ conflict_detected
  /\ get_user_choice("ls_to_sheet")
  /\ df' = df_at_set(df, index, field.display, normalized_ls_val)
  /\ conflict_info' =
       Append(conflict_info,
              Entry("override_sheet", index, field.display, normalized_sheet_val,
                    normalized_ls_val))
  /\ spreadsheet_changes' =
       Append(spreadsheet_changes,
              Entry("updated", index, field.display, normalized_sheet_val, normalized_ls_val))
  /\ outcomes' = Append(outcomes, Outcome("ConflictResolved:ls_to_sheet", normalized_ls_val))
  /\ next_field
  /\ UNCHANGED <<error, environ, spreadsheet_file, to_excel_calls, index, asset,
                 ls_updates, quit_processing, request_count, ls_changes, missing_info,
                 discrepancy_file, requests>>

\* choice 2: update Lansweeper with the spreadsheet value.
ConflictSheetToLs ==
  /\ conflict_detected
  /\ get_user_choice("sheet_to_ls")
  /\ ls_updates' = dict_set(ls_updates, field.ls, normalized_sheet_val)
  /\ conflict_info' =
       Append(conflict_info,
              Entry("override_ls", index, field.display, normalized_ls_val,
                    normalized_sheet_val))
  /\ ls_changes' =
       Append(ls_changes,
              Entry("will_update", index, field.display, normalized_ls_val,
                    normalized_sheet_val))
  /\ outcomes' = Append(outcomes, Outcome("ConflictResolved:sheet_to_ls", normalized_sheet_val))
  /\ next_field
  /\ UNCHANGED <<error, environ, spreadsheet_file, to_excel_calls, df, index, asset,
                 quit_processing, request_count, spreadsheet_changes, missing_info,
                 discrepancy_file, requests>>

\* Mutant: a skipped field is staged all the same.
ConflictSkip_stages ==
  /\ conflict_detected
  /\ get_user_choice("skip")
  /\ ls_updates' = dict_set(ls_updates, field.ls, normalized_sheet_val)
  /\ conflict_info' =
       Append(conflict_info,
              Entry("skipped", index, field.display, normalized_sheet_val, normalized_ls_val))
  /\ outcomes' = Append(outcomes, Outcome("Skipped", None))
  /\ next_field
  /\ UNCHANGED <<error, environ, spreadsheet_file, to_excel_calls, df, index, asset,
                 quit_processing, request_count, spreadsheet_changes,
                 ls_changes, missing_info, discrepancy_file, requests>>

\* choice 3: skip this field.
ConflictSkip ==
  /\ conflict_detected
  /\ get_user_choice("skip")
  /\ conflict_info' =
       Append(conflict_info,
              Entry("skipped", index, field.display, normalized_sheet_val, normalized_ls_val))
  /\ outcomes' = Append(outcomes, Outcome("Skipped", None))
  /\ next_field
  /\ UNCHANGED <<error, environ, spreadsheet_file, to_excel_calls, df, index, asset,
                 ls_updates, quit_processing, request_count, spreadsheet_changes,
                 ls_changes, missing_info, discrepancy_file, requests>>

\* --------------------------------------------- main: the update of the row

next_row ==
  /\ index' = index + 1
  /\ pc' = "row"

\* Nothing staged, or the flag is set: update_asset is not called.
DispatchSkip ==
  /\ pc = "dispatch"
  /\ ls_updates = EmptyDict \/ quit_processing
  /\ next_row
  /\ UNCHANGED <<error, environ, spreadsheet_file, to_excel_calls, df, field_i, asset,
                 ls_updates, quit_processing, request_count, spreadsheet_changes,
                 ls_changes, missing_info, conflict_info, discrepancy_file, requests,
                 prompts, outcomes>>

\* How update_asset ends when the service answers response to the mutation it
\* posts: it returns True or False, or the TypeError of 'errors' in data leaves
\* it (only RequestException is caught).  Nothing is posted when customFields
\* is empty.
update_result(payload, response) ==
  IF payload = EmptyDict THEN "true"
  ELSE CASE response = "ok" -> "true"
         [] response = "json_null" -> "raised"
         [] OTHER -> "false"

\* Mutant: a failed update is attempted again.
DispatchUpdate_retries ==
  /\ pc = "dispatch"
  /\ ls_updates # EmptyDict /\ ~quit_processing
  /\ \E choice \in prompt_answers, response \in UpdateResponses :
       LET payload == custom_fields(ls_updates)
           result == update_result(payload, response)
       IN /\ quit_processing' = check_rate_limit(request_count, choice, quit_processing)
          /\ request_count' = request_count + 1
          /\ requests' =
               Append(requests,
                      Request("mutation", index, gate_answer(request_count, choice),
                              payload # EmptyDict, asset.key, payload, result))
          /\ IF result = "raised"
             THEN /\ pc' = "done"
                  /\ error' = "exception"
                  /\ UNCHANGED <<index, ls_changes>>
             ELSE /\ error' = error
                  /\ ls_changes' =
                       IF result = "true"
                       THEN Append(ls_changes, Entry("updated_ls", index, "", None, ls_updates))
                       ELSE ls_changes
                  /\ IF result = "true" THEN next_row ELSE UNCHANGED <<index, pc>>
  /\ UNCHANGED <<environ, spreadsheet_file, to_excel_calls, df, field_i, asset,
                 ls_updates, spreadsheet_changes, missing_info, conflict_info,
                 discrepancy_file, prompts, outcomes>>

\* Mutant: update_asset returns at the prompt when the answer is 'q', and no
\* entry is made.
DispatchUpdate_stops_at_prompt ==
  /\ pc = "dispatch"
  /\ ls_updates # EmptyDict /\ ~quit_processing
  /\ \E choice \in prompt_answers, response \in UpdateResponses :
       LET stopped == gate_answer(request_count, choice) = "q"
           payload == IF stopped THEN EmptyDict ELSE custom_fields(ls_updates)
           result == update_result(payload, response)
       IN /\ quit_processing' = check_rate_limit(request_count, choice, quit_processing)
          /\ request_count' = request_count + 1
          /\ requests' =
               Append(requests,
                      Request("mutation", index, gate_answer(request_count, choice),
                              payload # EmptyDict, asset.key, payload, result))
          /\ IF result = "raised"
             THEN /\ pc' = "done"
                  /\ error' = "exception"
                  /\ UNCHANGED <<index, ls_changes>>
             ELSE /\ error' = error
                  /\ ls_changes' =
                       IF stopped
                       THEN ls_changes
                       ELSE Append(ls_changes,
                                   Entry(IF result = "true" THEN "updated_ls" ELSE "failed_ls",
                                         index, "", None, ls_updates))
                  /\ next_row
  /\ UNCHANGED <<environ, spreadsheet_file, to_excel_calls, df, field_i, asset,
                 ls_updates, spreadsheet_changes, missing_info, conflict_info,
                 discrepancy_file, prompts, outcomes>>

\* Mutant: the staged fields are sent although the flag is set.
DispatchUpdate_ignores_flag ==
  /\ pc = "dispatch"
  /\ ls_updates # EmptyDict
  /\ \E choice \in prompt_answers, response \in UpdateResponses :
       LET payload == custom_fields(ls_updates)
           result == update_result(payload, response)
       IN /\ quit_processing' = check_rate_limit(request_count, choice, quit_processing)
          /\ request_count' = request_count + 1
          /\ requests' =
               Append(requests,
                      Request("mutation", index, gate_answer(request_count, choice),
                              payload # EmptyDict, asset.key, payload, result))
          /\ IF result = "raised"
             THEN /\ pc' = "done"
                  /\ error' = "exception"
                  /\ UNCHANGED <<index, ls_changes>>
             ELSE /\ error' = error
                  /\ ls_changes' =
                       Append(ls_changes,
                              Entry(IF result = "true" THEN "updated_ls" ELSE "failed_ls",
                                    index, "", None, ls_updates))
                  /\ next_row
  /\ UNCHANGED <<environ, spreadsheet_file, to_excel_calls, df, field_i, asset,
                 ls_updates, spreadsheet_changes, missing_info, conflict_info,
                 discrepancy_file, prompts, outcomes>>

\* api.update_asset(asset['key'], serial_number, ls_updates), and its entry;
\* an exception that leaves update_asset ends main at its last handler.
DispatchUpdate ==
  /\ pc = "dispatch"
  /\ ls_updates # EmptyDict /\ ~quit_processing
  /\ \E choice \in prompt_answers, response \in UpdateResponses :
       LET payload == custom_fields(ls_updates)
           result == update_result(payload, response)
       IN /\ quit_processing' = check_rate_limit(request_count, choice, quit_processing)
          /\ request_count' = request_count + 1
          /\ requests' =
               Append(requests,
                      Request("mutation", index, gate_answer(request_count, choice),
                              payload # EmptyDict, asset.key, payload, result))
          /\ IF result = "raised"
             THEN /\ pc' = "done"
                  /\ error' = "exception"
                  /\ UNCHANGED <<index, ls_changes>>
             ELSE /\ error' = error
                  /\ ls_changes' =
                       Append(ls_changes,
                              Entry(IF result = "true" THEN "updated_ls" ELSE "failed_ls",
                                    index, "", None, ls_updates))
                  /\ next_row
  /\ UNCHANGED <<environ, spreadsheet_file, to_excel_calls, df, field_i, asset,
                 ls_updates, spreadsheet_changes, missing_info, conflict_info,
                 discrepancy_file, prompts, outcomes>>

\* input() of _check_rate_limit raises EOFError in update_asset: the exception
\* leaves the method before the counter is incremented and before anything is
\* posted, and is caught by the last handler of main; the row gets no UPDATED
\* or FAILED entry.
DispatchInputRaises ==
  /\ pc = "dispatch"
  /\ ls_updates # EmptyDict /\ ~quit_processing
  /\ prompt_shown
  /\ requests' =
       Append(requests,
              Request("mutation", index, "EOFError", FALSE, asset.key, EmptyDict, "raised"))
  /\ pc' = "done"
  /\ error' = "exception"
  /\ UNCHANGED <<environ, spreadsheet_file, to_excel_calls, df, index, field_i, asset,
                 ls_updates, quit_processing, request_count, spreadsheet_changes,
                 ls_changes, missing_info, conflict_info, discrepancy_file, prompts,
                 outcomes>>

\* ---------------------------------------------------- main: after the loop

\* Mutant: the spreadsheet is always saved.
save_always(changes) == TRUE

\* if spreadsheet_changes: the spreadsheet is saved only when it was changed.
save_needed(changes) == changes # <<>>

\* What df.to_excel does: it writes the file, or raises (the file cannot be
\* written).
ToExcelOutcomes == {"saved", "raises"}

\* The loop ends (the rows are exhausted, or quit_processing breaks it): the
\* stop marker, the section of missing_info, df.to_excel when
\* spreadsheet_changes is not empty, and the other sections.  An exception of
\* df.to_excel ends main at its last handler, before the sections that follow.
Finish ==
  /\ pc = "row"
  /\ index > Len(df) \/ quit_processing
  /\ \E to_excel \in ToExcelOutcomes :
       LET raised == save_needed(spreadsheet_changes) /\ to_excel = "raises"
       IN /\ discrepancy_file' =
               discrepancy_file
               \o (IF quit_processing THEN <<Entry("stopped", 0, "", None, None)>> ELSE <<>>)
               \o section("missing_fields", missing_info)
               \o (IF raised
                   THEN <<>>
                   ELSE section("spreadsheet_changes", spreadsheet_changes)
                        \o section("ls_changes", ls_changes)
                        \o section("conflicts", conflict_info))
          /\ IF save_needed(spreadsheet_changes)
             THEN /\ spreadsheet_file' =
                       IF raised THEN spreadsheet_file
                       ELSE [spreadsheet_file EXCEPT !.rows = df]
                  /\ to_excel_calls' = to_excel_calls + 1
             ELSE UNCHANGED <<spreadsheet_file, to_excel_calls>>
          /\ error' = IF raised THEN "exception" ELSE error
  /\ pc' = "done"
  /\ UNCHANGED <<environ, df, index, field_i, asset, ls_updates, quit_processing,
                 request_count, spreadsheet_changes, ls_changes, missing_info,
                 conflict_info, requests, prompts, outcomes>>

\* A run of main from its start.  The spreadsheets here have NRows rows, so a
\* run makes fewer than RATE_LIMIT requests and the prompt of
\* _check_rate_limit is never shown: the steps where its input() raises are
\* part of NextGate.
Next ==
  \/ StartMissingConfig
  \/ StartFileNotFound
  \/ StartMissingColumns
  \/ ReadSpreadsheet
  \/ SkipRow
  \/ LookupFailed
  \/ LookupNotFound
  \/ LookupAmbiguous
  \/ LookupOne
  \/ FieldBothEmpty
  \/ FieldFillSheet
  \/ FieldFillLS
  \/ FieldMatch
  \/ ConflictQuit
  \/ ConflictLsToSheet
  \/ ConflictSheetToLs
  \/ ConflictSkip
  \/ ConflictInputRaises
  \/ DispatchSkip
  \/ DispatchUpdate
  \/ Finish

Spec == Init /\ [][Next]_vars

TypeOK ==
  /\ pc \in {"start", "row", "field", "dispatch", "done"}
  /\ error \in {"none", "config", "file_not_found", "exception"}
  /\ index \in 0..(NRows + 1)
  /\ field_i \in 0..NFields
  /\ request_count \in 0..(2 * NRows)
  /\ to_excel_calls \in 0..1

\* ------------------------------------------- a long run, near the prompt

\* A run of main on a long spreadsheet, taken up where the next request is
\* the 149th, the 150th or the 151st: the rows so far had serial numbers the
\* service did not know, so each made one request and one line of the report.
GateStarts == {RATE_LIMIT - 2, RATE_LIMIT - 1, RATE_LIMIT}

UnknownRow == MkRow(Text("SN0"), NaN, NaN, NaN)

\* The rows that follow: a row that stages an update, a row whose staged
\* update has nothing to post, and a row without a serial number.
GateSpreadsheets ==
  { r \in Spreadsheets :
      \A i \in 1..NRows : r[i] # MkRow(Text("SN3"), Str(<<D(77, 2)>>), NaN, NaN) }

InitGate ==
  \E k \in GateStarts, r \in GateSpreadsheets :
    LET rows == [i \in 1..(k + NRows) |-> IF i <= k THEN UnknownRow ELSE r[i - k]]
    IN /\ pc = "row"
       /\ error = "none"
       /\ environ = [site_id |-> TRUE, pat_token |-> TRUE]
       /\ spreadsheet_file = [exists |-> TRUE, columns |-> required_columns, rows |-> rows]
       /\ to_excel_calls = 0
       /\ df = rows
       /\ index = k + 1
       /\ field_i = 0
       /\ asset = NoAsset
       /\ ls_updates = EmptyDict
       /\ quit_processing = FALSE
       /\ request_count = k
       /\ spreadsheet_changes = <<>>
       /\ ls_changes = <<>>
       /\ missing_info = <<>>
       /\ conflict_info = <<>>
       /\ discrepancy_file =
            <<Entry("header", 0, "", None, None)>>
            \o [i \in 1..k |-> Entry("not_found", i, "", None, None)]
       /\ requests = [i \in 1..k |-> Request("query", i, "none", TRUE, "", EmptyDict, "zero")]
       /\ prompts = <<>>
       /\ outcomes = <<>>

NextGate ==
  \/ SkipRow
  \/ LookupInputRaises
  \/ LookupFailed
  \/ LookupNotFound
  \/ LookupAmbiguous
  \/ LookupOne
  \/ FieldBothEmpty
  \/ FieldFillSheet
  \/ FieldFillLS
  \/ FieldMatch
  \/ ConflictQuit
  \/ ConflictLsToSheet
  \/ ConflictSheetToLs
  \/ ConflictSkip
  \/ ConflictInputRaises
  \/ DispatchSkip
  \/ DispatchInputRaises
  \/ DispatchUpdate
  \/ Finish

SpecGate == InitGate /\ [][NextGate]_vars

\* ------------------------------------------------ compare_values, alone

\* The values a cell can hold: NaN, None, '', ' ', a barcode, a date, a date
\* no format matches.
CompareSheetValues ==
  { NaN, None, Str(<<>>), Str(<<W(1)>>), Barcode(123), DateUS(11, 8, 2024), Text("garbage"),
    Str(<<L("BC"), W(1), D(1, 1)>>), Str(<<L("BC"), W(2), D(1, 1)>>) }

\* The values a field of a record can hold.
CompareLsValues ==
  { None, Str(<<>>), Str(<<W(1)>>), Barcode(123), DateLS(2024, 11, 8), Text("garbage"),
    Str(<<L("BC"), W(1), D(1, 1)>>),
    Str(<<D(2024, 4), L("-"), D(11, 2), L("-"), D(8, 2), L("t"),
          D(0, 2), L(":"), D(0, 2), L(":"), D(0, 2), L("z")>>) }

\* One call compare_values(spreadsheet_val, lansweeper_val, field_ls_name) is
\* about to be made: the spreadsheet value is in the cell of the field, the
\* Lansweeper value in the record.
InitCompare ==
  \E spreadsheet_val \in CompareSheetValues, lansweeper_val \in CompareLsValues,
     j \in 1..NFields :
    LET row == [c \in required_columns |->
                  IF c = fields_to_process[j].display THEN spreadsheet_val
                  ELSE IF c = "Serial Number" THEN Text("SN1") ELSE NaN]
    IN /\ pc = "compare"
       /\ error = "none"
       /\ environ = [site_id |-> TRUE, pat_token |-> TRUE]
       /\ spreadsheet_file = [exists |-> TRUE, columns |-> required_columns, rows |-> <<row>>]
       /\ to_excel_calls = 0
       /\ df = <<row>>
       /\ index = 1
       /\ field_i = j
       /\ asset = [f \in DOMAIN NoAsset |->
                     IF f = fields_to_process[j].ls THEN lansweeper_val
                     ELSE IF f = "key" THEN "K1" ELSE None]
       /\ ls_updates = EmptyDict
       /\ quit_processing = FALSE
       /\ request_count = 0
       /\ spreadsheet_changes = <<>>
       /\ ls_changes = <<>>
       /\ missing_info = <<>>
       /\ conflict_info = <<>>
       /\ discrepancy_file = <<>>
       /\ requests = <<>>
       /\ prompts = <<>>
       /\ outcomes = <<>>

\* The call is made, with the name of the field in Lansweeper (as main does)
\* or with another name, and what it returned is kept.
Compare ==
  /\ pc = "compare"
  /\ \E field_name \in FieldNames :
       outcomes' =
         Append(outcomes,
                [Outcome(IF compare_values(sheet_val, ls_val, characters(field_name))
                         THEN "True" ELSE "False", None)
                 EXCEPT !.field = field_name])
  /\ pc' = "done"
  /\ UNCHANGED <<error, environ, spreadsheet_file, to_excel_calls, df, index, field_i,
                 asset, ls_updates, quit_processing, request_count, spreadsheet_changes,
                 ls_changes, missing_info, conflict_info, discrepancy_file, requests,
                 prompts>>

NextCompare == Compare

SpecCompare == InitCompare /\ [][NextCompare]_vars

\* ---------------------------------------------------- parse_date, alone

\* a<sep>b<sep>y with the widths wa, wb, wy: "03/04/2024", "13-04-2024", "3/4/24"
DateParts(a, wa, sep, b, wb, y, wy) ==
  Str(<<D(a, wa), L(sep), D(b, wb), L(sep), D(y, wy)>>)

\* "2024-11-08<sep>13:45:10" followed by tail, sep being one token
DateTime(sep, tail) ==
  Str(<<D(2024, 4), L("-"), D(11, 2), L("-"), D(8, 2), sep,
        D(13, 2), L(":"), D(45, 2), L(":"), D(10, 2)>> \o tail)

\* The values parse_date is given.
ParseInputs ==
  { NaN, Text("garbage"),
    DateISO(2024, 11, 8), DateLS(2024, 11, 8), DateISO(999, 1, 1),
    DateTime(W(1), <<>>), DateTime(W(3), <<>>), DateTime(L("T"), <<>>),
    DateTime(L("T"), <<L("Z")>>), DateTime(L("t"), <<L("z")>>),
    DateTime(L("T"), <<L("."), D(0, 3), L("Z")>>),
    Str(<<D(11, 2), L("/"), W(1), D(8, 1), L("/"), D(2024, 4)>>),
    Str(<<D(11, 2), L("/"), W(2), D(8, 1), L("/"), D(2024, 4)>>),
    Str(<<D(11, 2), L("/"), W(1), D(8, 2), L("/"), D(2024, 4)>>),
    DateParts(2024, 4, "/", 11, 2, 8, 2),
    DateParts(3, 2, "/", 4, 2, 2024, 4), DateParts(13, 2, "/", 4, 2, 2024, 4),
    DateParts(4, 2, "/", 13, 2, 2024, 4), DateParts(12, 2, "/", 12, 2, 2024, 4),
    DateParts(30, 2, "/", 2, 2, 2024, 4), DateParts(2, 2, "/", 29, 2, 2023, 4),
    DateParts(2, 2, "/", 29, 2, 2024, 4), DateParts(31, 2, "/", 4, 2, 2024, 4),
    DateParts(3, 2, "-", 4, 2, 2024, 4), DateParts(13, 2, "-", 4, 2, 2024, 4),
    DateParts(3, 1, "/", 4, 1, 24, 2), DateParts(13, 2, "/", 4, 1, 24, 2),
    DateParts(3, 1, "/", 4, 1, 69, 2), DateParts(3, 1, "-", 4, 1, 24, 2),
    Str(<<W(1)>> \o DateParts(3, 2, "/", 4, 2, 2024, 4).s \o <<W(1)>>) }

OutputFormats == {"normal", "lansweeper"}

\* parse_date is about to be called with the value of the Invoice Date cell.
InitParse ==
  \E date_str \in ParseInputs :
    LET row == MkRow(Text("SN1"), NaN, date_str, NaN)
    IN /\ pc = "parse"
       /\ error = "none"
       /\ environ = [site_id |-> TRUE, pat_token |-> TRUE]
       /\ spreadsheet_file = [exists |-> TRUE, columns |-> required_columns, rows |-> <<row>>]
       /\ to_excel_calls = 0
       /\ df = <<row>>
       /\ index = 1
       /\ field_i = 2
       /\ asset = MkAsset("K1", None, None, None)
       /\ ls_updates = EmptyDict
       /\ quit_processing = FALSE
       /\ request_count = 0
       /\ spreadsheet_changes = <<>>
       /\ ls_changes = <<>>
       /\ missing_info = <<>>
       /\ conflict_info = <<>>
       /\ discrepancy_file = <<>>
       /\ requests = <<>>
       /\ prompts = <<>>
       /\ outcomes = <<>>

\* parse_date(date_str, output_fmt): the format and the result are kept.
ParseDate ==
  /\ pc = "parse"
  /\ \E output_fmt \in OutputFormats :
       outcomes' = Append(outcomes, Outcome(output_fmt, parse_date(sheet_val, output_fmt)))
  /\ pc' = "parsed"
  /\ UNCHANGED <<error, environ, spreadsheet_file, to_excel_calls, df, index, field_i,
                 asset, ls_updates, quit_processing, request_count, spreadsheet_changes,
                 ls_changes, missing_info, conflict_info, discrepancy_file, requests,
                 prompts>>

\* parse_date is called on what it returned, with the same output_fmt.
ParseDateAgain ==
  /\ pc = "parsed"
  /\ outcomes' =
       Append(outcomes,
              Outcome(outcomes[1].kind, parse_date(outcomes[1].value, outcomes[1].kind)))
  /\ pc' = "done"
  /\ UNCHANGED <<error, environ, spreadsheet_file, to_excel_calls, df, index, field_i,
                 asset, ls_updates, quit_processing, request_count, spreadsheet_changes,
                 ls_changes, missing_info, conflict_info, discrepancy_file, requests,
                 prompts>>

NextParse == ParseDate \/ ParseDateAgain

SpecParse == InitParse /\ [][NextParse]_vars

\* ----------------------------------------------- what the claims speak of

FieldPositions == 1..NFields
LsNames == { fields_to_process[j].ls : j \in FieldPositions }
display_of(name) == fields_to_process[CHOOSE j \in FieldPositions : fields_to_process[j].ls = name].display
position_of(name) == CHOOSE j \in FieldPositions : fields_to_process[j].ls = name
position_of_display(name) == CHOOSE j \in FieldPositions : fields_to_process[j].display = name

\* The row has been left by the loop.
row_done(i) == i \in 1..Len(df) /\ i < index

\* The lookup made for row i returned result.
looked_up(i, result) ==
  \E k \in 1..Len(requests) :
    requests[k].op = "query" /\ requests[k].row = i /\ requests[k].result = result

outcomes_of(i, name) ==
  { k \in 1..Len(outcomes) : outcomes[k].row = i /\ outcomes[k].field = name }

prompts_of(i, display) ==
  { k \in 1..Len(prompts) : prompts[k].row = i /\ prompts[k].field = display }

updates_of(i) ==
  { k \in 1..Len(requests) : requests[k].op = "mutation" /\ requests[k].row = i }

\* The fields staged for row i, by the outcomes recorded for it.
StagingKinds == {"FillRemote", "ConflictResolved:sheet_to_ls"}
staged_fields(i) ==
  { outcomes[k].field : k \in { n \in 1..Len(outcomes) :
                                  outcomes[n].row = i /\ outcomes[n].kind \in StagingKinds } }

\* The resolver answered quit for a field of row i.
aborted(i) == \E k \in 1..Len(prompts) : prompts[k].row = i /\ prompts[k].choice = "quit"

\* The row is the one being processed, after its lookup returned one record.
in_row == pc \in {"field", "dispatch"}

\* The value the spreadsheet held for the row when it was read (the file is
\* rewritten only by the last step of the run).
read_val(i, display) == spreadsheet_file.rows[i][display]

\* -------------------------------------------------------------------- C1

\* C1 (as stated): every row whose lookup returned exactly one record has,
\* once the loop has left it, exactly one outcome for each of the three fields.
C1_EveryFieldOneOutcome ==
  \A i \in 1..Len(df) :
    (row_done(i) /\ looked_up(i, "one"))
      => \A name \in LsNames : Cardinality(outcomes_of(i, name)) = 1

\* The call of get_user_choice for a field of row i ended by an exception.
resolver_raised(i) ==
  \E k \in 1..Len(prompts) : prompts[k].row = i /\ prompts[k].choice = "raised"

\* C1 (amended): a field never has two outcomes, and every field of a row
\* whose lookup returned one record has exactly one outcome once the loop has
\* left the row or the run has ended, unless the cancellation flag has been
\* set or the resolver could not read an answer for a field of the row; the
\* field answered quit, and the field whose answer could not be read, have
\* none.
C1_OneOutcomeUnlessCancelled ==
  \A i \in 1..Len(df) : \A name \in LsNames :
    /\ Cardinality(outcomes_of(i, name)) <= 1
    /\ ((row_done(i) \/ pc = "done") /\ looked_up(i, "one") /\ ~quit_processing
        /\ ~resolver_raised(i))
         => Cardinality(outcomes_of(i, name)) = 1
    /\ (\E k \in prompts_of(i, display_of(name)) : prompts[k].choice \in {"quit", "raised"})
         => outcomes_of(i, name) = {}
    /\ resolver_raised(i) => (pc = "done" /\ error = "exception" /\ index = i)

\* A row with one record and its three outcomes, one of them a resolved conflict.
C1_Witness ==
  \E i \in 1..Len(df) :
    /\ row_done(i) /\ looked_up(i, "one") /\ ~quit_processing
    /\ \A name \in LsNames : Cardinality(outcomes_of(i, name)) = 1
    /\ prompts_of(i, "Barcode Number") # {}

\* -------------------------------------------------------------------- C2

\* C2: spreadsheet value empty, Lansweeper value not: the cell of the row is
\* set to the Lansweeper value in the spreadsheet's form ("2024-11-08" for
\* "2024-11-08T00:00:00Z"), one spreadsheet_changes entry is appended for the
\* field, and the field is neither staged nor sent.
C2_FillLocal ==
  \A k \in 1..Len(outcomes) :
    outcomes[k].kind = "FillLocal" =>
      LET i == outcomes[k].row
          name == outcomes[k].field
          display == display_of(name)
      IN /\ Cardinality({ n \in 1..Len(spreadsheet_changes) :
                            spreadsheet_changes[n].row = i
                            /\ spreadsheet_changes[n].field = display }) = 1
         /\ \A n \in updates_of(i) : name \notin DOMAIN requests[n].fields
         /\ (in_row /\ i = index) =>
              /\ is_empty(read_val(i, display))
              /\ ~is_empty(ls_value(asset, name))
              /\ name \notin DOMAIN ls_updates
              /\ df[i][display] =
                   (IF is_date_field(characters(name))
                    THEN parse_date(ls_value(asset, name), "normal")
                    ELSE str(ls_value(asset, name)))
              /\ ls_value(asset, name) = DateLS(2024, 11, 8)
                   => df[i][display] = DateISO(2024, 11, 8)

\* "2024-11-08T00:00:00Z" has been copied into an empty date cell.
C2_Witness ==
  /\ in_row
  /\ \E k \in 1..Len(outcomes) :
       /\ outcomes[k].kind = "FillLocal" /\ outcomes[k].row = index
       /\ ls_value(asset, outcomes[k].field) = DateLS(2024, 11, 8)
       /\ df[index][display_of(outcomes[k].field)] = DateISO(2024, 11, 8)

\* -------------------------------------------------------------------- C3

\* C3 (as stated): spreadsheet value not empty, Lansweeper value empty: the
\* value staged in ls_updates for a date is the full UTC timestamp.
C3_StagedAsTimestamp ==
  \A k \in 1..Len(outcomes) :
    (outcomes[k].kind = "FillRemote" /\ in_row /\ outcomes[k].row = index
     /\ is_date_field(characters(outcomes[k].field)))
      => ls_updates[outcomes[k].field] =
           parse_date(read_val(index, display_of(outcomes[k].field)), "lansweeper")

\* C3 (amended): the value staged in ls_updates is the spreadsheet value in
\* the calendar-date form ("2024-11-08" for "11/08/2024", None for a date that
\* does not parse; str(value) for the barcode), the row is left unchanged, and
\* the UTC timestamp ("2024-11-08T00:00:00Z") appears only in the customFields
\* of the update call.
C3_StagedAsCalendarDate ==
  \A k \in 1..Len(outcomes) :
    outcomes[k].kind = "FillRemote" =>
      LET i == outcomes[k].row
          name == outcomes[k].field
          display == display_of(name)
          local == read_val(i, display)
      IN /\ df[i][display] = local
         /\ ~is_empty(local)
         /\ \A n \in updates_of(i) :
              name \in DOMAIN requests[n].fields =>
                /\ requests[n].fields[name] =
                     (IF is_date_field(characters(name)) THEN parse_date(local, "lansweeper") ELSE str(local))
                /\ local = DateUS(11, 8, 2024) => requests[n].fields[name] = DateLS(2024, 11, 8)
         /\ (in_row /\ i = index) =>
              /\ is_empty(ls_value(asset, name))
              /\ name \in DOMAIN ls_updates
              /\ ls_updates[name] =
                   (IF is_date_field(characters(name)) THEN parse_date(local, "normal") ELSE str(local))
              /\ local = DateUS(11, 8, 2024) => ls_updates[name] = DateISO(2024, 11, 8)

\* "11/08/2024" has been staged as "2024-11-08" and sent as "2024-11-08T00:00:00Z".
C3_Witness ==
  \E k \in 1..Len(outcomes) :
    /\ outcomes[k].kind = "FillRemote"
    /\ read_val(outcomes[k].row, display_of(outcomes[k].field)) = DateUS(11, 8, 2024)
    /\ outcomes[k].value = DateISO(2024, 11, 8)
    /\ \E n \in updates_of(outcomes[k].row) :
         /\ outcomes[k].field \in DOMAIN requests[n].fields
         /\ requests[n].fields[outcomes[k].field] = DateLS(2024, 11, 8)

\* -------------------------------------------------------------------- C4

\* The two values of field j of the row in progress conflict.
conflicting(j) ==
  LET name == fields_to_process[j].ls
      local == read_val(index, fields_to_process[j].display)
      remote == ls_value(asset, name)
  IN /\ ~is_empty(local) /\ ~is_empty(remote)
     /\ IF is_date_field(characters(name))
        THEN parse_date(local, "normal") # parse_date(remote, "normal")
        ELSE strip(str(local)) # strip(str(remote))

\* C4: a field whose two values are both non-empty and unequal makes exactly
\* one call of get_user_choice, with the two (normalized) values, and no other
\* field makes one; after the answer sheet_to_ls (adopt the spreadsheet value)
\* ls_updates holds the spreadsheet value ("BC123") under the Lansweeper name
\* and conflict_info has the entry of the override.
C4_ConflictResolvedOnce ==
  in_row =>
    \A j \in FieldPositions :
      LET name == fields_to_process[j].ls
          display == fields_to_process[j].display
          local == read_val(index, display)
          remote == ls_value(asset, name)
          decided == outcomes_of(index, name) # {} \/ prompts_of(index, display) # {}
      IN /\ decided =>
              Cardinality(prompts_of(index, display)) = (IF conflicting(j) THEN 1 ELSE 0)
         /\ \A k \in prompts_of(index, display) :
              /\ prompts[k].spreadsheet_val =
                   (IF is_date_field(characters(name)) THEN parse_date(local, "normal") ELSE str(local))
              /\ prompts[k].lansweeper_val =
                   (IF is_date_field(characters(name)) THEN parse_date(remote, "normal") ELSE str(remote))
              /\ prompts[k].choice = "sheet_to_ls" =>
                   /\ name \in DOMAIN ls_updates
                   /\ ls_updates[name] = prompts[k].spreadsheet_val
                   /\ local = Barcode(123) => ls_updates[name] = Barcode(123)
                   /\ df[index][display] = local
                   /\ \E n \in 1..Len(conflict_info) :
                        conflict_info[n] =
                          Entry("override_ls", index, display, prompts[k].lansweeper_val,
                                prompts[k].spreadsheet_val)

\* "BC123" against "BC124", answered sheet_to_ls: "BC123" is staged as barCode.
C4_Witness ==
  /\ in_row
  /\ read_val(index, "Barcode Number") = Barcode(123)
  /\ asset.barCode = Barcode(124)
  /\ \E k \in prompts_of(index, "Barcode Number") : prompts[k].choice = "sheet_to_ls"
  /\ "barCode" \in DOMAIN ls_updates
  /\ ls_updates["barCode"] = Barcode(123)

\* -------------------------------------------------------------------- C5

\* Nothing was done for row i beyond its lookup.
untouched(i) ==
  /\ \A name \in LsNames : outcomes_of(i, name) = {}
  /\ \A k \in 1..Len(prompts) : prompts[k].row # i
  /\ updates_of(i) = {}
  /\ df[i] = spreadsheet_file.rows[i]
  /\ \A n \in 1..Len(spreadsheet_changes) : spreadsheet_changes[n].row # i
  /\ \A n \in 1..Len(ls_changes) : ls_changes[n].row # i
  /\ \A n \in 1..Len(missing_info) : missing_info[n].row # i
  /\ \A n \in 1..Len(conflict_info) : conflict_info[n].row # i

\* C5: a lookup that returns more than one record: the row is written to the
\* report as ambiguous and nothing else is done for it (no outcome, no call of
\* get_user_choice, no change of the row, no update call).
C5_AmbiguousSkipped ==
  \A i \in 1..Len(df) :
    looked_up(i, "many") =>
      /\ untouched(i)
      /\ Cardinality({ n \in 1..Len(discrepancy_file) :
                         discrepancy_file[n] = Entry("ambiguous", i, "", None, None) }) = 1
      /\ \A n \in 1..Len(discrepancy_file) : discrepancy_file[n].kind # "not_found"
                                               \/ discrepancy_file[n].row # i

\* An ambiguous row, left behind while a later row has produced outcomes.
C5_Witness ==
  \E i \in 1..Len(df) :
    /\ looked_up(i, "many")
    /\ \E k \in 1..Len(outcomes) : outcomes[k].row > i

\* -------------------------------------------------------------------- C6

\* C6: a lookup that returns no record: the row is written to the report as
\* not found and nothing else is done for it, and the loop goes on to the next
\* row: the run ends after it only when the rows are exhausted or the flag is
\* set, and with no error but that of saving the spreadsheet.
C6_NotFoundSkipped ==
  /\ \A i \in 1..Len(df) :
       looked_up(i, "zero") =>
         /\ untouched(i)
         /\ Cardinality({ n \in 1..Len(discrepancy_file) :
                            discrepancy_file[n] = Entry("not_found", i, "", None, None) }) = 1
         /\ index > i
  /\ (requests # <<>> /\ requests[Len(requests)].result = "zero") =>
       /\ index > requests[Len(requests)].row
       /\ pc \in {"row", "done"}
       /\ pc = "row" => error = "none"
       /\ pc = "done" => (index > Len(df) \/ quit_processing)
       /\ error # "none" => to_excel_calls = 1

\* A row that was not found, and the next row looked up after it.
C6_Witness ==
  \E i \in 1..Len(df) :
    /\ looked_up(i, "zero")
    /\ \E k \in 1..Len(requests) : requests[k].op = "query" /\ requests[k].row = i + 1

\* -------------------------------------------------------------------- C7

\* C7: after get_user_choice answers quit for a field of row i, there is no
\* later call of get_user_choice, no outcome for that field, a later field of
\* the row or a later row, no update of row i and no lookup of a later row.
C7_NothingAfterAbort ==
  \A k \in 1..Len(prompts) :
    prompts[k].choice = "quit" =>
      LET i == prompts[k].row
          j == position_of_display(prompts[k].field)
      IN /\ k = Len(prompts)
         /\ quit_processing
         /\ \A n \in 1..Len(outcomes) :
              \/ outcomes[n].row < i
              \/ outcomes[n].row = i /\ position_of(outcomes[n].field) < j
         /\ \A n \in 1..Len(requests) :
              /\ requests[n].row <= i
              /\ requests[n].row = i => requests[n].op = "query"
         /\ pc \in {"dispatch", "row", "done"}
         /\ index \in {i, i + 1}

\* The run has ended after a quit on the first row, whose later rows include
\* one with a serial number.
C7_Witness ==
  /\ pc = "done"
  /\ \E k \in 1..Len(prompts) : prompts[k].choice = "quit" /\ prompts[k].row = 1
  /\ \E i \in 2..Len(df) : ~is_empty(df[i]["Serial Number"])

\* -------------------------------------------------------------------- C8

LocalMutationKinds == {"FillLocal", "ConflictResolved:ls_to_sheet"}

\* The run was ended by an error before the end of the loop: a precondition,
\* the report that cannot be opened, or an exception of a lookup, of an update
\* call or of get_user_choice.
ended_before_the_end ==
  /\ error # "none"
  /\ \/ requests = <<>>
     \/ requests[Len(requests)].result \in {"failed", "raised"}
     \/ prompts # <<>> /\ prompts[Len(prompts)].choice = "raised"

\* C8: df.to_excel is called at most once, only by the last step of a run
\* whose loop has ended (the rows exhausted or the flag set) and which changed
\* the spreadsheet; a run without a change of the spreadsheet, or one ended
\* by an error before that, never writes the file, and the file is not
\* written while the rows are processed.
C8_SavedOnceAtEnd ==
  /\ to_excel_calls <= 1
  /\ to_excel_calls = 1 =>
       /\ pc = "done"
       /\ index > Len(df) \/ quit_processing
       /\ spreadsheet_changes # <<>>
       /\ \E k \in 1..Len(outcomes) : outcomes[k].kind \in LocalMutationKinds
       /\ error = "none" => spreadsheet_file.rows = df
  /\ (\A k \in 1..Len(outcomes) : outcomes[k].kind \notin LocalMutationKinds)
       => to_excel_calls = 0
  /\ ended_before_the_end => to_excel_calls = 0
  /\ (to_excel_calls = 0 /\ spreadsheet_changes # <<>>) => spreadsheet_file.rows # df

\* The spreadsheet was saved at the end of a run.
C8_Witness ==
  /\ to_excel_calls = 1
  /\ pc = "done"
  /\ \E k \in 1..Len(outcomes) : outcomes[k].kind = "FillLocal"

\* -------------------------------------------------------------------- C9

\* C9 (as stated): a row the loop has left, whose lookup returned one record,
\* has exactly one call of update_asset if fields were staged for it and none
\* if not.
C9_OneCallIffStaged ==
  \A i \in 1..Len(df) :
    (row_done(i) /\ looked_up(i, "one")) =>
      Cardinality(updates_of(i)) = (IF staged_fields(i) # {} THEN 1 ELSE 0)

\* The value update_asset sends for a staged value.
sent_value(name, value) ==
  IF is_date_field(characters(name)) THEN parse_date(value, "lansweeper") ELSE value

\* C9 (amended): update_asset is called for a row only after its fields, once
\* if fields were staged for it and the flag is not set, and not at all if
\* nothing was staged or get_user_choice answered quit for one of its fields;
\* what a call carries was staged for that same row, with the key of its record.
C9_OneCallUnlessCancelled ==
  /\ \A i \in 1..Len(df) :
       /\ Cardinality(updates_of(i)) <= 1
       /\ updates_of(i) # {} =>
            \/ row_done(i)
            \/ index = i /\ pc = "done" /\ requests[Len(requests)].result = "raised"
       /\ (row_done(i) /\ looked_up(i, "one")) =>
            Cardinality(updates_of(i)) =
              (IF staged_fields(i) # {} /\ ~aborted(i) THEN 1 ELSE 0)
       /\ \A n \in updates_of(i) :
            /\ DOMAIN requests[n].fields \subseteq staged_fields(i)
            /\ \A name \in DOMAIN requests[n].fields :
                 \E k \in outcomes_of(i, name) :
                   /\ outcomes[k].kind \in StagingKinds
                   /\ requests[n].fields[name] = sent_value(name, outcomes[k].value)
  /\ (requests # <<>> /\ requests[Len(requests)].op = "mutation")
       => requests[Len(requests)].key = asset.key

\* Two rows, each with its own update call, for different fields.
C9_Witness ==
  \E i \in 1..Len(df) : \E m \in updates_of(i) : \E n \in updates_of(i + 1) :
    /\ requests[m].sent /\ requests[n].sent
    /\ DOMAIN requests[m].fields # DOMAIN requests[n].fields

\* ------------------------------------------------------------------- C10

\* C10: every call of update_asset carries every field staged for its row.
C10_PayloadCarriesBatch ==
  \A n \in 1..Len(requests) :
    requests[n].op = "mutation" =>
      staged_fields(requests[n].row) \subseteq DOMAIN requests[n].fields

\* ------------------------------------------------------------------- C11

\* The batch staged for row i, by the outcomes recorded for it.
staged_batch(i) ==
  [name \in staged_fields(i) |->
     outcomes[CHOOSE k \in outcomes_of(i, name) : outcomes[k].kind \in StagingKinds].value]

dispatch_entries(i) ==
  { k \in 1..Len(ls_changes) :
      ls_changes[k].row = i /\ ls_changes[k].kind \in {"updated_ls", "failed_ls"} }

\* C11: when update_asset returns False (errors in the answer, or the request
\* raised) the row has no second update call, ls_changes has one failure entry
\* for the row, holding the whole batch that was attempted, and no success
\* entry, and the loop has gone on to the next row without an error: the run
\* ends after it only when the rows are exhausted.
C11_FailedUpdateNotRetried ==
  \A n \in 1..Len(requests) :
    (requests[n].op = "mutation" /\ requests[n].result = "false") =>
      LET i == requests[n].row
      IN /\ requests[n].sent
         /\ updates_of(i) = {n}
         /\ \E k \in 1..Len(ls_changes) :
              /\ dispatch_entries(i) = {k}
              /\ ls_changes[k] = Entry("failed_ls", i, "", None, staged_batch(i))
         /\ staged_batch(i) # EmptyDict
         /\ index > i
         /\ n = Len(requests) =>
              /\ pc \in {"row", "done"}
              /\ pc = "row" => error = "none"
              /\ pc = "done" => index > Len(df)

\* A failed update of one row, and the lookup of the next row made after it.
C11_Witness ==
  \E n \in 1..Len(requests) :
    /\ requests[n].op = "mutation" /\ requests[n].result = "false"
    /\ n < Len(requests)
    /\ requests[n + 1].op = "query" /\ requests[n + 1].row = requests[n].row + 1

\* ------------------------------------------------------------------- C12

\* C12: a lookup that fails (get_asset_by_serial returns None) does not end
\* the run: no error is raised, the run ends only when the rows are exhausted
\* or the flag is set, and a run that changed the spreadsheet for an earlier
\* row saves it.
C12_LookupFailureIsLocal ==
  \A n \in 1..Len(requests) :
    (requests[n].op = "query" /\ requests[n].result = "failed") =>
      /\ error = "none"
      /\ pc = "done" =>
           /\ index > Len(df) \/ quit_processing
           /\ spreadsheet_changes # <<>> => to_excel_calls = 1

\* ------------------------------------------------------------------- C13

\* A required variable is not set, or the file lacks a required column.
precondition_failed ==
  \/ ~environ.site_id
  \/ ~environ.pat_token
  \/ ~(required_columns \subseteq spreadsheet_file.columns)

\* C13: when SITE_ID or PAT_TOKEN is not set, or a required column is missing,
\* the run ends at once with an error: no row is reached, no request is made
\* and request_count stays 0, df and the four lists stay empty, nothing is
\* written to the report, and the spreadsheet file is not written.
C13_PreconditionFailed ==
  precondition_failed =>
    /\ pc \in {"start", "done"}
    /\ pc = "done" => error # "none"
    /\ index = 0
    /\ requests = <<>> /\ request_count = 0
    /\ prompts = <<>> /\ outcomes = <<>>
    /\ df = <<>>
    /\ spreadsheet_changes = <<>> /\ ls_changes = <<>>
    /\ missing_info = <<>> /\ conflict_info = <<>>
    /\ discrepancy_file = <<>>
    /\ to_excel_calls = 0
    /\ spreadsheet_file \in Files

\* A run ended by a missing column, with the configuration complete.
C13_Witness ==
  /\ pc = "done"
  /\ error = "exception"
  /\ environ.site_id /\ environ.pat_token
  /\ spreadsheet_file.exists
  /\ "Invoice Date" \notin spreadsheet_file.columns

\* ------------------------------------------------------------------- C14

\* The prompt of _check_rate_limit was shown in call n.
gate_presented(n) == requests[n].gate # "none"

\* The number of calls before call n that posted a request.
issued_before(n) == Cardinality({ k \in 1..(n - 1) : requests[k].sent })

\* C14 (as stated): the prompt is shown exactly when the number of requests
\* posted so far is a positive multiple of 150, once for each multiple that is
\* reached.
C14_GateAfterEvery150thCall ==
  /\ \A n \in 1..Len(requests) :
       gate_presented(n) <=>
         (issued_before(n) > 0 /\ issued_before(n) % RATE_LIMIT = 0)
  /\ (pc = "done" /\ error = "none") =>
       Cardinality({ n \in 1..Len(requests) : gate_presented(n) })
         = issued_before(Len(requests) + 1) \div RATE_LIMIT

\* C14 (amended): request_count counts every call of get_asset_by_serial and
\* update_asset that gets past the prompt, also one that fails or posts
\* nothing; the prompt is shown at the start of a call exactly when the calls
\* counted before it are a positive multiple of 150 (so not at all when no
\* call follows the 150th); a call whose prompt cannot be read is not counted,
\* posts nothing and ends the run; the flag is set by the answer 'q' and,
\* apart from the answer quit to a conflict, by nothing else.
C14_GateBeforeCallAfter150th ==
  /\ request_count =
       Cardinality({ n \in 1..Len(requests) : requests[n].gate # "EOFError" })
  /\ \A n \in 1..Len(requests) :
       /\ gate_presented(n) <=> (n - 1 > 0 /\ (n - 1) % RATE_LIMIT = 0)
       /\ requests[n].gate = "q" => quit_processing
       /\ requests[n].gate \in {"none", "EOFError"} \cup GateChoices
       /\ requests[n].gate = "EOFError" =>
            /\ n = Len(requests) /\ pc = "done" /\ error = "exception"
            /\ ~requests[n].sent
            /\ request_count = n - 1
  /\ quit_processing <=>
       \/ \E n \in 1..Len(requests) : requests[n].gate = "q"
       \/ \E k \in 1..Len(prompts) : prompts[k].choice = "quit"

\* The prompt was shown in the 151st call and answered 'q', one of the 150
\* calls before it having posted nothing.
C14_Witness ==
  /\ Len(requests) = RATE_LIMIT + 1
  /\ requests[RATE_LIMIT + 1].gate = "q"
  /\ quit_processing
  /\ issued_before(RATE_LIMIT + 1) = RATE_LIMIT - 1

\* ------------------------------------------------------------------- C15

\* C15: when the prompt shown at the start of update_asset is answered 'q',
\* the call goes on as it would have: the customFields built from the batch
\* are posted, the success or failure entry of the row is appended to
\* ls_changes, and only then does the loop stop: no later call is made and
\* no later row gets an outcome or a question.
C15_DeclinedDispatchCompletes ==
  \A n \in 1..Len(requests) :
    (requests[n].op = "mutation" /\ requests[n].gate = "q") =>
      LET i == requests[n].row
      IN /\ requests[n].fields = custom_fields(staged_batch(i))
         /\ requests[n].sent = (requests[n].fields # EmptyDict)
         /\ \E k \in 1..Len(ls_changes) :
              /\ dispatch_entries(i) = {k}
              /\ ls_changes[k] =
                   Entry(IF requests[n].result = "true" THEN "updated_ls" ELSE "failed_ls",
                         i, "", None, staged_batch(i))
         /\ n = Len(requests)
         /\ quit_processing
         /\ index = i + 1
         /\ pc \in {"row", "done"}
         /\ \A k \in 1..Len(outcomes) : outcomes[k].row <= i
         /\ \A k \in 1..Len(prompts) : prompts[k].row <= i

\* A posted update whose prompt was answered 'q', the run ended, a row with a
\* serial number left unprocessed.
C15_Witness ==
  /\ pc = "done"
  /\ \E n \in 1..Len(requests) :
       /\ requests[n].op = "mutation" /\ requests[n].gate = "q"
       /\ requests[n].sent
       /\ requests[n].result = "false"
       /\ requests[n].row < Len(df)
       /\ ~is_empty(df[requests[n].row + 1]["Serial Number"])

\* ------------------------------------------------------------------- C16

\* The entries an outcome appended to the lists: <<list, entry>> pairs.
entries_of(o) ==
  LET display == display_of(o.field)
      old == prompts[CHOOSE k \in prompts_of(o.row, display) : TRUE].spreadsheet_val
  IN CASE o.kind = "BothEmpty" ->
            { <<"missing_info", Entry("both_empty", o.row, display, None, None)>> }
       [] o.kind = "FillLocal" ->
            { <<"spreadsheet_changes",
                Entry("updated_from_empty", o.row, display, None, o.value)>> }
       [] o.kind = "FillRemote" ->
            { <<"ls_changes", Entry("will_update_from_empty", o.row, display, None, o.value)>> }
       [] o.kind = "ConflictResolved:ls_to_sheet" ->
            { <<"spreadsheet_changes", Entry("updated", o.row, display, old, o.value)>>,
              <<"conflict_info", Entry("override_sheet", o.row, display, old, o.value)>> }
       [] OTHER -> {}

ledger(name) ==
  CASE name = "missing_info" -> missing_info
    [] name = "spreadsheet_changes" -> spreadsheet_changes
    [] name = "ls_changes" -> ls_changes
    [] OTHER -> conflict_info

in_ledger(pair) == \E k \in 1..Len(ledger(pair[1])) : ledger(pair[1])[k] = pair[2]

\* What the end of the run appends to the report.
report_tail ==
  (IF quit_processing THEN <<Entry("stopped", 0, "", None, None)>> ELSE <<>>)
  \o section("missing_fields", missing_info)
  \o section("spreadsheet_changes", spreadsheet_changes)
  \o section("ls_changes", ls_changes)
  \o section("conflicts", conflict_info)

\* C16: after get_user_choice has answered quit, every value written into df
\* before it is still there, every entry appended for an earlier outcome or
\* update call is still in its list, every update call made is still the one
\* call of its row; and when the run has ended the changed df has been saved
\* and the report ends with the four lists.
C16_NoRollbackOnAbort ==
  (\E q \in 1..Len(prompts) : prompts[q].choice = "quit") =>
    /\ \A k \in 1..Len(outcomes) :
         /\ outcomes[k].kind \in LocalMutationKinds =>
              /\ df[outcomes[k].row][display_of(outcomes[k].field)] = outcomes[k].value
              /\ pc = "done" =>
                   spreadsheet_file.rows[outcomes[k].row][display_of(outcomes[k].field)]
                     = outcomes[k].value
         /\ \A pair \in entries_of(outcomes[k]) : in_ledger(pair)
    /\ \A n \in 1..Len(requests) :
         requests[n].op = "mutation" =>
           /\ updates_of(requests[n].row) = {n}
           /\ \E k \in dispatch_entries(requests[n].row) :
                ls_changes[k].kind =
                  (IF requests[n].result = "true" THEN "updated_ls" ELSE "failed_ls")
    /\ pc = "done" =>
         /\ spreadsheet_changes # <<>> => (to_excel_calls = 1 /\ spreadsheet_file.rows = df)
         /\ Len(discrepancy_file) >= Len(report_tail)
         /\ SubSeq(discrepancy_file, Len(discrepancy_file) - Len(report_tail) + 1,
                   Len(discrepancy_file)) = report_tail
         /\ report_tail[1].kind = "stopped"

\* The run has ended after a quit in the second row: the first row had its
\* update posted, and the second had a cell filled before the quit.
C16_Witness ==
  /\ pc = "done"
  /\ \E q \in 1..Len(prompts) : prompts[q].choice = "quit" /\ prompts[q].row = 2
  /\ \E k \in 1..Len(outcomes) : outcomes[k].kind = "FillLocal" /\ outcomes[k].row = 2
  /\ \E n \in updates_of(1) : requests[n].sent
  /\ to_excel_calls = 1

\* ------------------------------------------------------------------- C17

IsPrefix(a, b) == Len(a) <= Len(b) /\ SubSeq(b, 1, Len(a)) = a

\* The place of an entry within its row: barcode, purchase date, warranty
\* date, and last the entry of the update call.
field_rank(display) ==
  CASE display = "Barcode Number" -> 1
    [] display = "Invoice Date" -> 2
    [] display = "Extended Warranty" -> 3
    [] OTHER -> 4

in_processing_order(list) ==
  \A a, b \in 1..Len(list) :
    a < b =>
      \/ list[a].row < list[b].row
      \/ list[a].row = list[b].row /\ field_rank(list[a].field) <= field_rank(list[b].field)

\* C17: every step leaves each of the four lists as it was or longer at the
\* end (what was in it stays, in place and unchanged), and each list is in
\* the order of the rows and, within a row, of the fields barcode, purchase
\* date, warranty date.
C17_LedgersAppendOnlyInOrder ==
  [][ /\ IsPrefix(spreadsheet_changes, spreadsheet_changes')
      /\ IsPrefix(ls_changes, ls_changes')
      /\ IsPrefix(conflict_info, conflict_info')
      /\ IsPrefix(missing_info, missing_info')
      /\ in_processing_order(spreadsheet_changes')
      /\ in_processing_order(ls_changes')
      /\ in_processing_order(conflict_info')
      /\ in_processing_order(missing_info') ]_vars

\* ls_changes holds entries of two fields of a row and of its update call,
\* conflict_info holds entries of two rows, and spreadsheet_changes holds
\* entries of two fields of a row.
C17_Witness ==
  /\ \E a, b, c \in 1..Len(ls_changes) :
       /\ a < b /\ b < c
       /\ ls_changes[a].row = ls_changes[c].row
       /\ ls_changes[a].field = "Barcode Number"
       /\ ls_changes[b].field = "Invoice Date"
       /\ ls_changes[c].kind = "updated_ls"
  /\ \E a, b \in 1..Len(conflict_info) : conflict_info[a].row < conflict_info[b].row
  /\ \E a, b \in 1..Len(spreadsheet_changes) :
       /\ spreadsheet_changes[a].row = spreadsheet_changes[b].row
       /\ field_rank(spreadsheet_changes[a].field) < field_rank(spreadsheet_changes[b].field)

\* ------------------------------------------------------------------- C18

\* A value that is not empty and that parse_date cannot read.
unparseable(value) == ~is_empty(value) /\ parse_date(value, "normal") = None

\* C18: a date cell that is not empty but matches no format is handled as an
\* empty one: its field ends as both-empty or is filled from Lansweeper, it is
\* never staged and never put to get_user_choice, and an entry of the lists
\* marks it as invalid.
C18_UnparseableTreatedAsEmpty ==
  pc # "done" =>
    /\ \A k \in 1..Len(outcomes) :
         LET display == display_of(outcomes[k].field)
         IN (is_date_field(characters(outcomes[k].field))
             /\ unparseable(read_val(outcomes[k].row, display)))
              => /\ outcomes[k].kind \in {"BothEmpty", "FillLocal"}
                 /\ \E list \in {missing_info, conflict_info, spreadsheet_changes, ls_changes} :
                      \E n \in 1..Len(list) :
                        /\ list[n].row = outcomes[k].row
                        /\ list[n].field = display
                        /\ list[n].kind = "invalid_date"
    /\ \A k \in 1..Len(prompts) :
         ~(prompts[k].field # "Barcode Number"
           /\ unparseable(read_val(prompts[k].row, prompts[k].field)))

\* ------------------------------------------------------------------- C19

\* C19: compare_values returns True for two values that are both empty (by
\* is_empty: null, '' or only whitespace) and False when exactly one of them
\* is, for the barcode and for the dates.
C19_ComparatorAgreesWithEmptiness ==
  (pc = "done" /\ outcomes # <<>>) =>
    /\ (is_empty(sheet_val) /\ is_empty(ls_val)) => outcomes[1].kind = "True"
    /\ (is_empty(sheet_val) # is_empty(ls_val)) => outcomes[1].kind = "False"

\* ------------------------------------------------------------------- C20

\* value in the form of the spreadsheet and of the staged updates.
local_form(name, value) ==
  IF is_date_field(characters(name)) THEN parse_date(value, "normal") ELSE str(value)

entries_for(list, i, display) ==
  { n \in 1..Len(list) : list[n].row = i /\ list[n].field = display }

\* C20 (as stated, AdoptLocal being the decision for the local value as in
\* C4): after sheet_to_ls the cell holds the Lansweeper value and nothing is
\* staged; after ls_to_sheet the spreadsheet value is staged and the cell is
\* unchanged.
C20_AdoptLocalMutatesLocalRow ==
  in_row =>
    \A k \in 1..Len(prompts) :
      prompts[k].row = index =>
        LET display == prompts[k].field
            name == fields_to_process[position_of_display(display)].ls
            local == read_val(index, display)
            remote == ls_value(asset, name)
        IN /\ prompts[k].choice = "sheet_to_ls" =>
                /\ df[index][display] = local_form(name, remote)
                /\ name \notin DOMAIN ls_updates
           /\ prompts[k].choice = "ls_to_sheet" =>
                /\ name \in DOMAIN ls_updates
                /\ ls_updates[name] = local_form(name, local)
                /\ df[index][display] = local

\* C20 (amended): the decision for the Lansweeper value (ls_to_sheet) does
\* what a fill of the spreadsheet does: the cell gets the Lansweeper value in
\* the spreadsheet's form ("2024-11-09" for "2024-11-09T00:00:00Z"), one
\* spreadsheet_changes entry is appended, nothing is staged.  The decision for
\* the spreadsheet value (sheet_to_ls) does what a fill of Lansweeper does:
\* the spreadsheet value is staged under the Lansweeper name, one ls_changes
\* entry is appended, the cell is unchanged.
C20_AdoptionsFollowFillPaths ==
  in_row =>
    \A k \in 1..Len(prompts) :
      prompts[k].row = index =>
        LET display == prompts[k].field
            name == fields_to_process[position_of_display(display)].ls
            local == read_val(index, display)
            remote == ls_value(asset, name)
        IN /\ prompts[k].choice = "ls_to_sheet" =>
                /\ df[index][display] = local_form(name, remote)
                /\ remote = DateLS(2024, 11, 9) => df[index][display] = DateISO(2024, 11, 9)
                /\ name \notin DOMAIN ls_updates
                /\ \E n \in 1..Len(spreadsheet_changes) :
                     /\ entries_for(spreadsheet_changes, index, display) = {n}
                     /\ spreadsheet_changes[n].new = df[index][display]
                /\ entries_for(ls_changes, index, display) = {}
           /\ prompts[k].choice = "sheet_to_ls" =>
                /\ name \in DOMAIN ls_updates
                /\ ls_updates[name] = local_form(name, local)
                /\ df[index][display] = local
                /\ \E n \in 1..Len(ls_changes) :
                     /\ entries_for(ls_changes, index, display) = {n}
                     /\ ls_changes[n].new = ls_updates[name]
                /\ entries_for(spreadsheet_changes, index, display) = {}

\* "2024-11-09T00:00:00Z" has been taken for the cell "11/08/2024" of the row
\* in progress, after the barcode of the row before was staged by sheet_to_ls.
C20_Witness ==
  /\ in_row
  /\ \E k \in prompts_of(index, "Invoice Date") :
       /\ prompts[k].choice = "ls_to_sheet"
       /\ read_val(index, "Invoice Date") = DateUS(11, 8, 2024)
       /\ df[index]["Invoice Date"] = DateISO(2024, 11, 9)
  /\ \E k \in 1..Len(prompts) : prompts[k].row < index /\ prompts[k].choice = "sheet_to_ls"

\* ------------------------------------------------------------------- C21

\* C21: when parse_date returns a date, parse_date of that date, with the
\* same output format, returns it again.
C21_ParseDateIdempotent ==
  (pc = "done" /\ Len(outcomes) = 2 /\ outcomes[1].value # None) =>
    outcomes[2].value = outcomes[1].value

\* ------------------------------------------------------------------- C26

\* The value is a<sep>b<sep>year, as "03/04/2024", "13-04-2024" or "3/4/24".
year_last(value) ==
  LET s == strip(str(value)).s
  IN /\ Len(s) = 5
     /\ s[1].k = "d" /\ s[3].k = "d" /\ s[5].k = "d"
     /\ s[1].w \in 1..2 /\ s[3].w \in 1..2
     /\ s[2].k = s[4].k
     /\ \/ s[2].k \in {"/", "-"} /\ s[5].w = 4
        \/ s[2].k = "/" /\ s[5].w = 2

valid_date(y, m, d) == m \in 1..12 /\ d >= 1 /\ d <= days_in_month(y, m)

rendered(y, m, d, output_fmt) ==
  IF output_fmt = "lansweeper"
  THEN Str(<<D(y, 4), L("-"), D(m, 2), L("-"), D(d, 2), L("T"),
             D(0, 2), L(":"), D(0, 2), L(":"), D(0, 2), L("Z")>>)
  ELSE Str(<<D(y, 4), L("-"), D(m, 2), L("-"), D(d, 2)>>)

\* C26: a date a/b/year or a-b-year is read with a as the month whenever
\* that is a date of the calendar (so always when a and b are both at most
\* 12), with b as the month only when it is not and that reading is a date,
\* and not at all otherwise.
C26_MonthFirst ==
  (outcomes # <<>> /\ year_last(sheet_val)) =>
    LET s == strip(str(sheet_val)).s
        a == s[1].v
        b == s[3].v
        y == IF s[5].w = 4 THEN s[5].v
             ELSE IF s[5].v <= 68 THEN 2000 + s[5].v ELSE 1900 + s[5].v
        fmt == outcomes[1].kind
    IN /\ outcomes[1].value =
            (IF valid_date(y, a, b) THEN rendered(y, a, b, fmt)
             ELSE IF valid_date(y, b, a) THEN rendered(y, b, a, fmt)
             ELSE None)
       /\ (a \in 1..12 /\ b \in 1..12) => outcomes[1].value = rendered(y, a, b, fmt)

\* "03/04/2024" has been read as the 4th of March.
C26_Witness ==
  /\ sheet_val = DateParts(3, 2, "/", 4, 2, 2024, 4)
  /\ outcomes # <<>>
  /\ outcomes[1].value = DateISO(2024, 3, 4)

\* ------------------------------------------------------------------- C22

\* value is a string of the form YYYY-MM-DDTHH:MM:SSZ.
is_utc_timestamp(value) ==
  /\ value.t = "str"
  /\ Len(value.s) = 12
  /\ \A j \in {1, 3, 5, 7, 9, 11} :
       value.s[j].k = "d" /\ value.s[j].w = (IF j = 1 THEN 4 ELSE 2)
  /\ value.s[2].k = "-" /\ value.s[4].k = "-" /\ value.s[6].k = "T"
  /\ value.s[8].k = ":" /\ value.s[10].k = ":" /\ value.s[12].k = "Z"

\* C22: the customFields of an update call hold only fields that were staged
\* for the row of the call (by a fill of Lansweeper or by sheet_to_ls), never
\* a field whose outcome was both-empty, match, a fill or an override of the
\* spreadsheet, or skipped; and every date in them is a string of the form
\* YYYY-MM-DDTHH:MM:SSZ.
C22_PayloadOnlyStagedFields ==
  \A n \in 1..Len(requests) :
    requests[n].op = "mutation" =>
      \A name \in DOMAIN requests[n].fields :
        /\ name \in LsNames
        /\ name \in staged_fields(requests[n].row)
        /\ \A k \in outcomes_of(requests[n].row, name) : outcomes[k].kind \in StagingKinds
        /\ is_date_field(characters(name)) => is_utc_timestamp(requests[n].fields[name])

\* An update call that carries the purchase date alone, as
\* "2024-11-08T00:00:00Z", for a row whose warranty date was filled in the
\* spreadsheet.
C22_Witness ==
  \E n \in 1..Len(requests) :
    /\ requests[n].op = "mutation" /\ requests[n].sent
    /\ DOMAIN requests[n].fields = {"purchaseDate"}
    /\ requests[n].fields["purchaseDate"] = DateLS(2024, 11, 8)
    /\ \E k \in outcomes_of(requests[n].row, "warrantyDate") : outcomes[k].kind = "FillLocal"

\* ------------------------------------------------------------------- C23

\* C23: a field of the row in progress whose values were both empty, or both
\* not empty and equal, has left the cell as it was read, has staged nothing,
\* has made no call of get_user_choice and no entry in spreadsheet_changes or
\* ls_changes and no conflict entry; the both-empty field has exactly one
\* entry in missing_info, the matching field none.
C23_NoEffectWhenEmptyOrEqual ==
  in_row =>
    \A k \in 1..Len(outcomes) :
      (outcomes[k].row = index /\ outcomes[k].kind \in {"BothEmpty", "Match"}) =>
        LET name == outcomes[k].field
            display == display_of(name)
            local == read_val(index, display)
            remote == ls_value(asset, name)
        IN /\ df[index][display] = local
           /\ name \notin DOMAIN ls_updates
           /\ prompts_of(index, display) = {}
           /\ entries_for(spreadsheet_changes, index, display) = {}
           /\ entries_for(ls_changes, index, display) = {}
           /\ \A n \in entries_for(conflict_info, index, display) :
                conflict_info[n].kind \in {"invalid_ls_barcode", "invalid_sheet_barcode"}
           /\ outcomes[k].kind = "BothEmpty" =>
                /\ is_empty(local) /\ is_empty(remote)
                /\ Cardinality(entries_for(missing_info, index, display)) = 1
           /\ outcomes[k].kind = "Match" =>
                /\ ~is_empty(local) /\ ~is_empty(remote)
                /\ local_form(name, local) = local_form(name, remote)
                /\ entries_for(missing_info, index, display) = {}

\* "11/08/2024" has matched "2024-11-08T00:00:00Z" in the row in progress,
\* and a field of the row before was empty on both sides.
C23_Witness ==
  /\ pc = "dispatch"
  /\ \E k \in outcomes_of(index, "warrantyDate") :
       /\ outcomes[k].kind = "Match"
       /\ df[index]["Extended Warranty"] = DateUS(11, 8, 2024)
       /\ asset.warrantyDate = DateLS(2024, 11, 8)
  /\ \E k \in 1..Len(outcomes) : outcomes[k].row < index /\ outcomes[k].kind = "BothEmpty"

\* ------------------------------------------------------------------- C24

\* C24: after get_user_choice has answered skip for a field of the row in
\* progress, conflict_info has exactly one entry of the conflict, with the
\* spreadsheet value and the Lansweeper value (in the form shown to the
\* user), the cell and ls_updates are as before, spreadsheet_changes and
\* ls_changes have no entry for the field, no update carries it, and the loop
\* has gone on to the next field (or, after the last, to the update).
C24_SkipLeavesBothSides ==
  in_row =>
    \A k \in 1..Len(prompts) :
      (prompts[k].row = index /\ prompts[k].choice = "skip") =>
        LET display == prompts[k].field
            j == position_of_display(display)
            name == fields_to_process[j].ls
            local == read_val(index, display)
            remote == ls_value(asset, name)
            conflicts == { n \in entries_for(conflict_info, index, display) :
                             conflict_info[n].kind
                               \notin {"invalid_ls_barcode", "invalid_sheet_barcode"} }
        IN /\ \E n \in 1..Len(conflict_info) :
                /\ conflicts = {n}
                /\ conflict_info[n] =
                     Entry("skipped", index, display, local_form(name, local),
                           local_form(name, remote))
           /\ df[index][display] = local
           /\ name \notin DOMAIN ls_updates
           /\ entries_for(spreadsheet_changes, index, display) = {}
           /\ entries_for(ls_changes, index, display) = {}
           /\ \E o \in 1..Len(outcomes) :
                outcomes_of(index, name) = {o} /\ outcomes[o].kind = "Skipped"
           /\ IF j < NFields THEN field_i > j ELSE pc = "dispatch"

\* "BC123" against "BC124" was skipped, and the row has gone on to its dates.
C24_Witness ==
  /\ in_row
  /\ \E k \in prompts_of(index, "Barcode Number") : prompts[k].choice = "skip"
  /\ \E n \in 1..Len(conflict_info) :
       conflict_info[n] = Entry("skipped", index, "Barcode Number", Barcode(123), Barcode(124))
  /\ outcomes_of(index, "purchaseDate") # {}

\* ------------------------------------------------------------------- C25

\* int(value) raises for a barcode that has a value.
malformed(value) == ~is_empty(value) /\ ~int_ok(value)

invalid_entries(i, kind) ==
  { n \in 1..Len(conflict_info) : conflict_info[n].row = i /\ conflict_info[n].kind = kind }

\* C25: for a row whose spreadsheet barcode or Lansweeper barcode is not a
\* number, no error is raised, conflict_info has one format entry for each
\* side that is not a number (and none for a side that is), and the fields
\* are processed as for any row: every field the loop has passed has its
\* outcome, the barcode first, and all three have one when the loop ends
\* without the flag set.
C25_BadBarcodeStillProcessed ==
  in_row =>
    LET sheet_barcode == read_val(index, "Barcode Number")
        ls_bad == malformed(asset.barCode)
        sheet_bad == malformed(sheet_barcode)
        ls_entries == invalid_entries(index, "invalid_ls_barcode")
        sheet_entries == invalid_entries(index, "invalid_sheet_barcode")
    IN (ls_bad \/ sheet_bad) =>
         /\ error = "none"
         /\ Cardinality(ls_entries) = (IF ls_bad THEN 1 ELSE 0)
         /\ Cardinality(sheet_entries) = (IF sheet_bad THEN 1 ELSE 0)
         /\ \A n \in ls_entries : conflict_info[n].new = asset.barCode
         /\ \A n \in sheet_entries : conflict_info[n].old = sheet_barcode
         /\ \A j \in FieldPositions :
              (j < field_i \/ (pc = "dispatch" /\ ~quit_processing))
                => Cardinality(outcomes_of(index, fields_to_process[j].ls)) = 1

\* "BC123" against "BC124": both format entries were written, and the row
\* has had all three fields processed, the barcode as a conflict.
C25_Witness ==
  /\ pc = "dispatch"
  /\ ~quit_processing
  /\ read_val(index, "Barcode Number") = Barcode(123)
  /\ asset.barCode = Barcode(124)
  /\ invalid_entries(index, "invalid_ls_barcode") # {}
  /\ invalid_entries(index, "invalid_sheet_barcode") # {}
  /\ prompts_of(index, "Barcode Number") # {}
  /\ \A name \in LsNames : outcomes_of(index, name) # {}

\* ------------------------------------------------------------------- C27

\* C27: for a row in which get_user_choice answered quit, update_asset is
\* never called and ls_changes has no success or failure entry, whatever the
\* earlier fields of the row staged; the entries those fields appended to
\* ls_changes when they staged stay in the list.
C27_CancelledBatchNeverSent ==
  \A i \in 1..Len(df) :
    aborted(i) =>
      /\ updates_of(i) = {}
      /\ dispatch_entries(i) = {}
      /\ \A name \in staged_fields(i) :
           \E n \in entries_for(ls_changes, i, display_of(name)) :
             ls_changes[n].kind \in {"will_update_from_empty", "will_update"}

\* The run is over; in one of its rows the barcode was staged from the
\* spreadsheet and entered in ls_changes, then quit was answered for a date.
C27_Witness ==
  /\ pc = "done"
  /\ error = "none"
  /\ \E i \in 1..Len(df) :
       /\ aborted(i)
       /\ "barCode" \in staged_fields(i)
       /\ entries_for(ls_changes, i, "Barcode Number") # {}
       /\ updates_of(i) = {}

\* ------------------------------------------------------------------- C28

\* C28 (as stated): ls_changes has a success entry for a row only if an update
\* call of that row posted a mutation carrying at least one field and the
\* service answered without errors.
C28_SuccessOnlyAfterSend ==
  \A k \in 1..Len(ls_changes) :
    ls_changes[k].kind = "updated_ls" =>
      \E n \in updates_of(ls_changes[k].row) :
        /\ requests[n].sent
        /\ requests[n].fields # EmptyDict
        /\ requests[n].result = "true"

\* ------------------------------------------------------------------- C29

calls_made(op) == Cardinality({ n \in 1..Len(requests) : requests[n].op = op })

\* C29: request_count is always the number of calls of get_asset_by_serial
\* plus the number of calls of update_asset made so far: every call adds
\* exactly 1, whatever becomes of it.
C29_CounterCountsInvocations ==
  request_count = calls_made("query") + calls_made("mutation")

\* ------------------------------------------------------------------- C30

\* The lookups at whose prompt 'q' was answered.
declined_lookups ==
  { n \in 1..Len(requests) : requests[n].op = "query" /\ requests[n].gate = "q" }

report_has(kind, i) ==
  \E e \in 1..Len(discrepancy_file) :
    discrepancy_file[e].kind = kind /\ discrepancy_file[e].row = i

\* C30: when 'q' is answered at the prompt of a row's lookup, the query is
\* posted all the same, and an empty or multiple result is written to the
\* report; but the row has no outcome for any field, get_user_choice is not
\* called for it, nothing is staged, entered in a list or written into the
\* row, update_asset is not called for it, and no later row is started.
C30_DeclinedAtLookup ==
  \A n \in declined_lookups :
    LET i == requests[n].row
    IN /\ requests[n].sent
       /\ requests[n].result = "zero" => report_has("not_found", i)
       /\ requests[n].result = "many" => report_has("ambiguous", i)
       /\ \A name \in LsNames : outcomes_of(i, name) = {}
       /\ \A k \in 1..Len(prompts) : prompts[k].row # i
       /\ (index = i /\ pc = "dispatch") => ls_updates = EmptyDict
       /\ df[i] = spreadsheet_file.rows[i]
       /\ \A e \in 1..Len(spreadsheet_changes) : spreadsheet_changes[e].row # i
       /\ \A e \in 1..Len(ls_changes) : ls_changes[e].row # i
       /\ \A e \in 1..Len(missing_info) : missing_info[e].row # i
       /\ updates_of(i) = {}
       /\ index <= i + 1
       /\ \A m \in 1..Len(requests) : requests[m].row <= i
       /\ \A j \in (i + 1)..Len(df) : untouched(j)

\* The run is over: 'q' was answered at the lookup of a row that has a
\* record with a different barcode and is not the last row; the row after it
\* has a serial number.
C30_Witness ==
  /\ pc = "done"
  /\ error = "none"
  /\ \E n \in declined_lookups :
       LET i == requests[n].row
       IN /\ requests[n].result = "one"
          /\ df[i]["Barcode Number"] = Barcode(123)
          /\ asset.barCode = Barcode(124)
          /\ i < Len(df)
          /\ ~is_empty(df[i + 1]["Serial Number"])

====
